---- MODULE Spec2Model ----
(***************************************************************************)
(* Model of the crawl-and-localize pipeline of web-cloner                  *)
(* (src/src/downloader.py, src/src/utils.py).                              *)
(*                                                                         *)
(* The crawl is one coordinating asyncio flow (the page recursion) plus,   *)
(* while one page's resources are fetched, a batch of concurrently         *)
(* scheduled tasks gated by an asyncio.Semaphore.  A task runs atomically  *)
(* between two awaits, so one action below is one such atomic stretch.     *)
(***************************************************************************)
EXTENDS Integers, Sequences, FiniteSets, TLC

(***************************************************************************)
(* Bounds of the explored configurations and of the injected faults.       *)
(***************************************************************************)
MaxDepthBound == 1
MaxPagesBound == 3
MaxConc == 2
MaxFaults == 1
MaxTicks == 1
MaxLoops == 1
MaxTasks == 2
MaxWorkers == 2
MaxAttempts == 3

\* if len(self.visited_urls) > 1000: in _cleanup_resources.
KeepVisited == 1000

(***************************************************************************)
(* URLs.  A URL is what urlparse makes of it: scheme, netloc and path.     *)
(* The path is the list path.split('/'), so "/docs/api" is                 *)
(* << "", "docs", "api" >>, "/" is << "", "" >>, the empty path is << "" >>*)
(* and a relative reference "x.png" is << "x.png" >>; ext is               *)
(* os.path.splitext(path)[1].  A reference in markup is a URL, or has an   *)
(* empty scheme (network-path "//host/x", path-absolute "/x", relative).   *)
(***************************************************************************)
U(s, n, p, e) == [scheme |-> s, netloc |-> n, path |-> p, ext |-> e]

StartUrl == U("https", "a.com", << "", "" >>, "")
PageDocs == U("https", "a.com", << "", "docs" >>, "")
PageApi == U("https", "a.com", << "", "docs", "api" >>, "")
PageExt == U("https", "b.com", << "", "" >>, "")
CssMain == U("https", "a.com", << "", "s.css" >>, ".css")
ImgLogo == U("https", "cdn.com", << "", "i.png" >>, ".png")
ImgE404 == U("https", "a.com", << "", "e404.png" >>, ".png")
FontMain == U("https", "a.com", << "", "f.woff" >>, ".woff")
DataPng == U("data", "", << "image", "png;base64,QUJD" >>, "")
DataEmpty == U("data", "", << "," >>, "")
DataRaw == U("data", "", << "image", "png,ABC" >>, "")
DataBad == U("data", "", << "image", "png;base64,A" >>, "")
ImgLogoHttp == U("http", "cdn.com", << "", "i.png" >>, ".png")

\* A page of its own, with its stylesheets and images.
Gallery ==
    [page |-> U("https", "a.com", << "", "gallery" >>, ""),
     a_css |-> U("https", "a.com", << "", "a.css" >>, ".css"),
     b_css |-> U("https", "a.com", << "", "b.css" >>, ".css"),
     c_css |-> U("https", "a.com", << "", "c.css" >>, ".css"),
     pic |-> U("https", "a.com", << "", "pic" >>, "")]

Rel(p, e) == U("", "", p, e)
NetRel(n, p, e) == U("", n, p, e)

NoMarkup == [stylesheets |-> <<>>, scripts |-> <<>>, imgs |-> <<>>, srcsets |-> <<>>,
             netfonts |-> <<>>, inlinestyles |-> <<>>, styleblocks |-> <<>>,
             anchors |-> <<>>]

\* What the rendering engine returns for a page: the references in its markup, in
\* document order, and the font responses observed on the network.
Markup(url) ==
    CASE url = StartUrl ->
           [NoMarkup EXCEPT !.stylesheets = << Rel(<< "", "s.css" >>, ".css") >>,
                            !.imgs = << NetRel("cdn.com", << "", "i.png" >>, ".png"),
                                        Rel(<< "", "e404.png" >>, ".png"), DataEmpty >>,
                            !.anchors = << Rel(<< "", "docs" >>, ""), PageExt, Rel(<< "", "" >>, ""),
                                           U("mailto", "", << "x@a.com" >>, ".com"),
                                           Rel(<< "", "docs", "api" >>, ""), PageDocs >>]
      [] url = PageDocs ->
           [NoMarkup EXCEPT !.stylesheets = << CssMain >>,
                            !.imgs = << DataPng >>,
                            !.inlinestyles = << Rel(<< "", "f.woff" >>, ".woff") >>,
                            !.anchors = << Rel(<< "", "docs", "api" >>, ""), StartUrl >>]
      [] url = PageApi ->
           [NoMarkup EXCEPT !.imgs = << ImgLogo, DataPng, DataRaw >>,
                            !.srcsets = << NetRel("cdn.com", << "", "i.png" >>, ".png") >>,
                            !.anchors = << PageDocs >>]
      [] url = PageExt ->
           [NoMarkup EXCEPT !.imgs = << Rel(<< "", "e404.png" >>, ".png"), DataBad >>,
                            !.anchors = << PageDocs, Rel(<< "", "" >>, "") >>]
      [] url = Gallery.page ->
           [NoMarkup EXCEPT !.stylesheets = << Rel(<< "", "a.css" >>, ".css") >>,
                            !.imgs = << Rel(<< "", "slow.png" >>, ".png"),
                                        Rel(<< "", "pic" >>, "") >>]
      [] OTHER -> NoMarkup

\* The url(...) references in the text of a stylesheet: a.css and b.css refer to
\* each other, and b.css to a third stylesheet.
CssText(url) ==
    CASE url = CssMain -> << ImgLogoHttp, Rel(<< "", "e404.png" >>, ".png") >>
      [] url = Gallery.a_css -> << Rel(<< "", "pic" >>, ""), Rel(<< "b.css" >>, ".css") >>
      [] url = Gallery.b_css -> << Rel(<< "a.css" >>, ".css"), Rel(<< "c.css" >>, ".css") >>
      [] url = Gallery.c_css -> << Rel(<< "b.css" >>, ".css") >>
      [] OTHER -> <<>>

\* Size in bytes of what the server sends for a URL.
Size(url) == IF url.ext = ".css" THEN 3 ELSE IF url.ext = ".woff" THEN 2 ELSE 1

\* Whether the text of a URL contains the characters "404".
TextHas404(url) == url.path = << "", "e404.png" >>

(***************************************************************************)
(* utils.py                                                                *)
(***************************************************************************)
\* urlparse(url).netloc
get_domain_from_url(url) == url.netloc

\* Mutant of is_same_domain: every pair of URLs passes for one domain.
is_same_domain_any(url1, url2) == TRUE

is_same_domain(url1, url2) == get_domain_from_url(url1) = get_domain_from_url(url2)

IsAbsolutePath(path) == Len(path) >= 2 /\ path[1] = ""

\* urljoin(base_url, url): an absolute URL is kept, a network-path reference takes
\* the scheme of the base, a path-absolute one its scheme and host, an empty one
\* is the base, and a relative one replaces the last segment of the base's path.
normalize_url(url, base_url) ==
    IF url.scheme # "" THEN url
    ELSE IF url.netloc # "" THEN [url EXCEPT !.scheme = base_url.scheme]
    ELSE IF IsAbsolutePath(url.path)
         THEN [url EXCEPT !.scheme = base_url.scheme, !.netloc = base_url.netloc]
    ELSE IF url.path = << "" >> THEN base_url
    ELSE [url EXCEPT !.scheme = base_url.scheme, !.netloc = base_url.netloc,
                     !.path = (IF IsAbsolutePath(base_url.path)
                               THEN SubSeq(base_url.path, 1, Len(base_url.path) - 1)
                               ELSE << "" >>) \o url.path]

\* re.sub(r'[<>:"/\\|?*]', '_', filename), on the segments that occur here.
sanitize_filename(filename) == IF filename = "a:b" THEN "a_b" ELSE filename

\* Path(*parts): the empty parts are dropped.
PathOf(parts) == SelectSeq(parts, LAMBDA x : x # "")

\* The local path of a URL below the output directory: the host directory, then
\* the sanitized segments of the path, with index.html for an empty or
\* extensionless path (path.rstrip('/') + '/index.html').
url_to_filename(url) ==
    LET path == IF url.path = << "" >> \/ url.path = << "", "" >> THEN << "index.html" >>
                ELSE IF url.ext = "" THEN url.path \o << "index.html" >>
                ELSE url.path
    IN PathOf(<< url.netloc >> \o [i \in 1..Len(path) |-> sanitize_filename(path[i])])

(***************************************************************************)
(* Sequence helpers.                                                       *)
(***************************************************************************)
Range(s) == {s[i] : i \in 1..Len(s)}

FontExts == {".woff", ".woff2", ".ttf", ".eot", ".otf"}
ImageExts == {".png", ".jpg", ".jpeg", ".gif", ".svg", ".webp", ".ico"}

\* The type a url(...) reference of a style block or of a stylesheet gets.
TypeByExt(url) ==
    IF url.ext \in FontExts THEN "fonts"
    ELSE IF url.ext \in ImageExts THEN "images"
    ELSE "other"

\* _parse_css_urls: the url(...) references, data URIs skipped, made absolute.
RECURSIVE _parse_css_urls(_, _)
_parse_css_urls(refs, base_url) ==
    IF refs = <<>> THEN <<>>
    ELSE LET rest == _parse_css_urls(Tail(refs), base_url)
         IN IF Head(refs).scheme = "data" THEN rest
            ELSE << normalize_url(Head(refs), base_url) >> \o rest

(***************************************************************************)
(* State.                                                                  *)
(***************************************************************************)
VARIABLES
    cfg,               \* self.config and the entry point used; constant during a crawl
    stack,             \* the frames of the page recursion, innermost last
    tasks,             \* the tasks of the current page's resource batch
    visited_urls,      \* self.visited_urls
    downloaded_files,  \* self.downloaded_files
    failed_downloads,  \* self.failed_downloads
    stats,             \* self.stats
    resource_map,      \* self.resource_map: URL -> local path
    disk,              \* the output tree: local path -> the URL whose bytes it holds
    faults,            \* failures injected so far by the environment
    fetches,           \* history: URL -> transfers or decodes started for it
    rendered,          \* history: the URLs handed to the rendering engine and what came of it
    entered,           \* history: <<url, depth>> of every URL marked visited
    batch0,            \* history: failure and file counts when the current batch began
    run,               \* download(): where the call stands and how it ended
    html_files,        \* the markup _save_html wrote for each page URL
    rw,                \* the arguments and results of a link rewrite studied on its own
    written,           \* history: the URLs whose file was written whole, with type and size
    operations,        \* the middleware's operation records and the clock their ids come from
    threads,           \* the worker threads that have returned and the memory monitor's loop
    tm,                \* the thread manager, its pool and the futures it handed out
    first,             \* the counters and registry a first run of a batch ended with
    cleaner,           \* the process cleaner, the processes running and those it ended
    retry,             \* _get_page_content_with_retry: the attempts made and what it returned
    engine             \* the browser, its context and the pages the page recursion has open

vars == << cfg, stack, tasks, visited_urls, downloaded_files, failed_downloads, stats,
           resource_map, disk, faults, fetches, rendered, entered, batch0, run,
           html_files, rw, written, operations, threads, tm, first, cleaner, retry, engine >>

\* The state of the components studied in specifications of their own.
aside == << threads, tm, first, cleaner, retry >>

NoKey == "<absent>"

FilesCount(st) == st.css + st.js + st.images + st.fonts + st.other

NewTask(url, rtype, base, parent) ==
    [url |-> url, rtype |-> rtype, base |-> base, parent |-> parent,
     st |-> "wait", res |-> "-"]

RECURSIVE TasksOf(_, _, _)
TasksOf(refs, rtype, page_url) ==
    IF refs = <<>> THEN <<>>
    ELSE << NewTask(normalize_url(Head(refs), page_url), rtype, TRUE, 0) >>
         \o TasksOf(Tail(refs), rtype, page_url)

RECURSIVE TypedTasks(_, _, _)
TypedTasks(urls, base, parent) ==
    IF urls = <<>> THEN <<>>
    ELSE << NewTask(Head(urls), TypeByExt(Head(urls)), base, parent) >>
         \o TypedTasks(Tail(urls), base, parent)

\* The url(...) references of style attributes: images and fonts only.
RECURSIVE InlineTasks(_)
InlineTasks(urls) ==
    IF urls = <<>> THEN <<>>
    ELSE (IF TypeByExt(Head(urls)) \in {"images", "fonts"}
          THEN << NewTask(Head(urls), TypeByExt(Head(urls)), TRUE, 0) >> ELSE <<>>)
         \o InlineTasks(Tail(urls))

\* _download_page_resources, lines 857-926: the download_tasks list of a page.
DownloadTasks(page_url) ==
    LET m == Markup(page_url)
    IN (IF cfg.download_css THEN TasksOf(m.stylesheets, "css", page_url) ELSE <<>>)
       \o (IF cfg.download_js THEN TasksOf(m.scripts, "js", page_url) ELSE <<>>)
       \o (IF cfg.download_images
           THEN TasksOf(m.imgs, "images", page_url) \o TasksOf(m.srcsets, "images", page_url)
           ELSE <<>>)
       \o (IF cfg.download_fonts THEN TasksOf(m.netfonts, "fonts", page_url) ELSE <<>>)
       \o (IF cfg.download_images
           THEN InlineTasks(_parse_css_urls(m.inlinestyles, page_url)) ELSE <<>>)
       \o TypedTasks(_parse_css_urls(m.styleblocks, page_url), TRUE, 0)

\* _extract_links: the http(s) anchors, external ones dropped unless followed,
\* without the visited ones and without repetition, in document order.
RECURSIVE ExtractFrom(_, _, _)
ExtractFrom(refs, base_url, links) ==
    IF refs = <<>> THEN links
    ELSE LET url == normalize_url(Head(refs), base_url)
             keep == /\ url.scheme \in {"http", "https"}
                     /\ (cfg.follow_external_links \/ is_same_domain(url, StartUrl))
                     /\ url \notin visited_urls
                     /\ url \notin Range(links)
         IN ExtractFrom(Tail(refs), base_url, IF keep THEN Append(links, url) ELSE links)

_extract_links(html, base_url) == ExtractFrom(html.anchors, base_url, <<>>)

\* What BeautifulSoup(page, 'html.parser') raises for a Page object: the text
\* depends on the version of the library installed.
Bs4Messages == {"Incoming markup is of an invalid type", "object of type 'Page' has no len()"}

Configs ==
    [max_depth : 0..MaxDepthBound, max_pages : 1..MaxPagesBound,
     follow_external_links : BOOLEAN, parallel_resource_downloads : 1..MaxConc,
     download_css : {TRUE}, download_js : {TRUE}, download_images : {TRUE},
     download_fonts : {TRUE}, entry : {"context", "browser"}]

Frame(url, depth, pc) == [url |-> url, depth |-> depth, pc |-> pc, links |-> <<>>, i |-> 1]

\* download() before its first statement.
NewRun == [pc |-> "start", outdir |-> FALSE, outcome |-> "-", cause |-> "-"]

NoRw == [pc |-> "off"]

(***************************************************************************)
(* The operation middleware: the records download() and its decorator keep.*)
(***************************************************************************)
\* f"{name}_{int(time.time() * 1000)}": the id names the millisecond it is made in.
OperationId(time) == IF time = 0 THEN "download_0" ELSE "download_1"

\* self.operations[operation_id] = OperationResult(status=RUNNING, ...);
\* self.stats['total_operations'] += 1
start_operation(ops, id) ==
    [ops EXCEPT !.status = (id :> "running") @@ @, !.tally.total_operations = @ + 1]

\* operation.status = status; self.stats[...] += 1; nothing for an unknown id.
update_operation(ops, id, status) ==
    IF id \notin DOMAIN ops.status THEN ops
    ELSE [ops EXCEPT !.status[id] = status, !.tally[status] = @ + 1]

\* with operation_context("网站下载", ...) as operation_id: the body of download()
\* makes an id of its own and starts an operation under it.
BodyEnters(ops) ==
    start_operation([ops EXCEPT !.operation_id = OperationId(ops.time)],
                    OperationId(ops.time))

\* What the body of download() records before it is left: SUCCESS with the
\* report, CANCELLED with "return {}", and FAILED twice for an exception, by the
\* handler of download() and by the one of operation_context.
BodyLeaves(ops, outcome) ==
    CASE outcome = "report" -> update_operation(ops, ops.operation_id, "success")
      [] outcome = "cancelled" -> update_operation(ops, ops.operation_id, "cancelled")
      [] OTHER -> update_operation(update_operation(ops, ops.operation_id, "failed"),
                                   ops.operation_id, "failed")

\* The middleware before download() is called.
NoOperations ==
    [time |-> 0, op_id |-> NoKey, operation_id |-> NoKey, left |-> FALSE,
     status |-> << >>,
     tally |-> [total_operations |-> 0, success |-> 0, failed |-> 0, cancelled |-> 0]]

\* No worker thread has returned and the memory monitor has not looped yet.
NoThreads == [returned |-> {}, loops |-> 0]

\* ThreadManager.__init__: no pool, no task, the lock free; the thread that
\* submits has submitted nothing and the pool's threads have nothing to run.
NoManager ==
    [pool |-> FALSE, lock |-> "-", tasks |-> << >>, active_tasks |-> {}, queue |-> <<>>,
     future |-> << >>, submit |-> [pc |-> "idle", id |-> 0], submitted |-> 0,
     worker |-> [w \in 1..MaxWorkers |-> [pc |-> "idle", id |-> 0, out |-> "-", result |-> "-"]]]

\* No run of a batch is kept for comparison.
NoFirst == [pc |-> "off"]

\* The processes of the machine, as psutil.process_iter shows them: the browser
\* this program launched (Playwright's own Chromium, whose command line names
\* the ms-playwright directory), the operator's own browser, Playwright's
\* driver, and the test runner of another program that uses Playwright.
Procs ==
    [p \in {"chromium", "chrome", "driver", "pytest"} |->
        [browser |-> p \in {"chromium", "chrome"},
         playwright |-> p \in {"chromium", "driver", "pytest"}]]

\* ProcessCleaner.__init__: nothing is registered and nothing was cleaned.
NoCleaner ==
    [managed_pids |-> {}, cleaned_processes |-> {}, running |-> DOMAIN Procs,
     terminated |-> {}]

\* The browser, the context and the pages are not followed.
NoEngine == [browser |-> "off", context |-> "off", pages |-> {}, existing_page |-> FALSE]

\* download() before the engine is launched: no browser, no context, no page,
\* and no confirmed page to hand to the page recursion.
NewEngine == [browser |-> "none", context |-> "none", pages |-> {}, existing_page |-> FALSE]

\* What happens to the browser, the context and the pages, where they are followed.
Engine(e, then) == IF e = NoEngine THEN e ELSE then

\* The retry is not running.
NoRetry == [retry_attempts |-> 0, attempts |-> <<>>, returned |-> "off"]

\* The downloader, the middleware and the components beside them as they are
\* made, before download() is called.
InitCrawl ==
    /\ stack = <<>>
    /\ run = NewRun
    /\ html_files = << >>
    /\ rw = NoRw
    /\ tasks = <<>>
    /\ visited_urls = {}
    /\ downloaded_files = {}
    /\ failed_downloads = <<>>
    /\ stats = [pages |-> 0, css |-> 0, js |-> 0, images |-> 0, fonts |-> 0, other |-> 0,
                total_size |-> 0]
    /\ resource_map = << >>
    /\ disk = << >>
    /\ faults = 0
    /\ fetches = << >>
    /\ rendered = <<>>
    /\ entered = {}
    /\ batch0 = [nfail |-> 0, nfiles |-> 0]
    /\ written = {}
    /\ operations = NoOperations
    /\ threads = NoThreads
    /\ tm = NoManager
    /\ cleaner = NoCleaner
    /\ retry = NoRetry
    /\ first = NoFirst

Init == cfg \in Configs /\ InitCrawl /\ engine = NoEngine

(***************************************************************************)
(* The link rewriter: _get_relative_path and _rewrite_html_links.          *)
(***************************************************************************)
\* self.output_dir as the command line gives it ("-o out").
OutputDir == << "out" >>

IsPrefix(s, t) == Len(s) <= Len(t) /\ SubSeq(t, 1, Len(s)) = s

\* The extension of the local file of a URL.
LocalExt(url) == IF url.ext = "" THEN ".html" ELSE url.ext

\* to_path.relative_to(from_path.parent), and str(to_path) when that raises
\* ValueError because to_path does not lie below the directory of the page.
_get_relative_path(from_url, to_url) ==
    LET from_path == url_to_filename(from_url)
        to_path == url_to_filename(to_url)
        parent == SubSeq(from_path, 1, Len(from_path) - 1)
    IN IF IsPrefix(parent, to_path)
       THEN Rel(IF Len(to_path) = Len(parent) THEN << "." >>
                ELSE SubSeq(to_path, Len(parent) + 1, Len(to_path)), LocalExt(to_url))
       ELSE Rel(OutputDir \o to_path, LocalExt(to_url))

\* for tag in soup.find_all(...): a reference whose absolute form is a key of
\* self.resource_map is replaced, any other reference is left as it is.
RewriteRefs(refs, base_url) ==
    [i \in 1..Len(refs) |->
        LET original_url == normalize_url(refs[i], base_url)
        IN IF original_url \in DOMAIN resource_map
           THEN _get_relative_path(base_url, original_url)
           ELSE refs[i]]

\* link[href], script[src], img[src] and a[href] are rewritten.
_rewrite_html_links(html, base_url) ==
    [html EXCEPT !.stylesheets = RewriteRefs(@, base_url),
                 !.scripts = RewriteRefs(@, base_url),
                 !.imgs = RewriteRefs(@, base_url),
                 !.anchors = RewriteRefs(@, base_url)]

(***************************************************************************)
(* download(): the rendering engine is launched, the operator may be asked *)
(* to confirm the start page, the output directory is created, the crawl   *)
(* runs and the report is written.  use_system_chrome, chrome_mode and     *)
(* wait_for_confirmation are read once each, where the actions choose.     *)
(***************************************************************************)
\* Mutant of Finally: the browser resources are left as they are.
Finally_leaves(e) == e

\* finally: await context.close(); if browser: await browser.close().  The pages
\* of a context are closed with it.
Finally(e) ==
    [e EXCEPT !.context = "closed",
              !.browser = IF @ = "open" THEN "closed" ELSE @,
              !.pages = {}]

Ended(outcome, cause) == [run EXCEPT !.pc = "done", !.outcome = outcome, !.cause = cause]

\* The body of download() is entered once the decorator has started its operation.
InBody == run.pc = "start" /\ operations.op_id # NoKey

\* async_operation's wrapper: op_id is made from the clock and operation_context
\* starts an operation under it; then download() itself is awaited.
WrapperEnters ==
    /\ run.pc = "start"
    /\ operations.op_id = NoKey
    /\ operations' = start_operation([operations EXCEPT !.op_id = OperationId(operations.time)],
                                     OperationId(operations.time))
    /\ UNCHANGED << cfg, aside, engine, written, run, rw, html_files, stack, tasks, visited_urls,
                    downloaded_files, failed_downloads, stats, resource_map, disk, faults,
                    fetches, rendered, entered, batch0 >>

\* The millisecond changes between the two ids.
ClockTick ==
    /\ InBody
    /\ operations.time < MaxTicks
    /\ operations' = [operations EXCEPT !.time = @ + 1]
    /\ UNCHANGED << cfg, aside, engine, written, run, rw, html_files, stack, tasks, visited_urls,
                    downloaded_files, failed_downloads, stats, resource_map, disk, faults,
                    fetches, rendered, entered, batch0 >>

\* What the wrapper records when download() has returned or raised: SUCCESS for
\* whatever was returned; FAILED twice for an exception, by the handler of the
\* wrapper and by the one of its operation_context.
WrapperRecords(ops, outcome) ==
    IF outcome = "raised"
    THEN update_operation(update_operation(ops, ops.op_id, "failed"), ops.op_id, "failed")
    ELSE update_operation(ops, ops.op_id, "success")

\* download() has returned or raised: the wrapper records the outcome and its
\* operation context is left.
WrapperLeaves ==
    /\ run.pc = "done"
    /\ ~operations.left
    /\ operations' = [WrapperRecords(operations, run.outcome) EXCEPT !.left = TRUE]
    /\ UNCHANGED << cfg, aside, engine, written, run, rw, html_files, stack, tasks, visited_urls,
                    downloaded_files, failed_downloads, stats, resource_map, disk, faults,
                    fetches, rendered, entered, batch0 >>

\* self.output_dir.mkdir(...) and the call of the page recursion for start_url.
BeginCrawl ==
    /\ run' = [run EXCEPT !.pc = "crawl", !.outdir = TRUE]
    /\ stack' = << Frame(StartUrl, 0, "call") >>

\* use_system_chrome: up to "await p.chromium.launch_persistent_context(...)".
StartPersistent ==
    /\ InBody
    /\ operations' = BodyEnters(operations)
    /\ run' = [run EXCEPT !.pc = "persistent"]
    /\ UNCHANGED << cfg, aside, engine, written, rw, html_files, stack, tasks, visited_urls, downloaded_files,
                    failed_downloads, stats, resource_map, disk, faults, fetches, rendered,
                    entered, batch0 >>

\* chrome_mode == 'system' with Chrome running, and the operator does not answer
\* 'y': return {}.
ChromeDeclined ==
    /\ InBody
    /\ operations' = BodyLeaves(BodyEnters(operations), "cancelled")
    /\ run' = Ended("cancelled", "chrome prompt declined")
    /\ UNCHANGED << cfg, aside, engine, written, rw, html_files, stack, tasks, visited_urls, downloaded_files,
                    failed_downloads, stats, resource_map, disk, faults, fetches, rendered,
                    entered, batch0 >>

\* Mutant of StartStandalone: the output directory is created before the
\* browser is launched.
StartStandalone_mkdir ==
    /\ InBody
    /\ operations' = BodyEnters(operations)
    /\ run' = [run EXCEPT !.pc = "standalone", !.outdir = TRUE]
    /\ UNCHANGED << cfg, aside, engine, written, rw, html_files, stack, tasks, visited_urls, downloaded_files,
                    failed_downloads, stats, resource_map, disk, faults, fetches, rendered,
                    entered, batch0 >>

\* not use_system_chrome: up to "await p.chromium.launch(headless=headless)".
StartStandalone ==
    /\ InBody
    /\ operations' = BodyEnters(operations)
    /\ run' = [run EXCEPT !.pc = "standalone"]
    /\ UNCHANGED << cfg, aside, engine, written, rw, html_files, stack, tasks, visited_urls, downloaded_files,
                    failed_downloads, stats, resource_map, disk, faults, fetches, rendered,
                    entered, batch0 >>

\* launch_persistent_context returns a context.
PersistentOk ==
    /\ run.pc = "persistent"
    /\ run' = [run EXCEPT !.pc = "gate"]
    /\ engine' = Engine(engine, [engine EXCEPT !.context = "open"])
    /\ UNCHANGED << cfg, aside, written, operations, rw, html_files, stack, tasks, visited_urls, downloaded_files,
                    failed_downloads, stats, resource_map, disk, faults, fetches, rendered,
                    entered, batch0 >>

\* launch_persistent_context raises: the handler falls back to a standalone browser.
PersistentFails ==
    /\ run.pc = "persistent"
    /\ run' = [run EXCEPT !.pc = "standalone"]
    /\ UNCHANGED << cfg, aside, engine, written, operations, rw, html_files, stack, tasks, visited_urls, downloaded_files,
                    failed_downloads, stats, resource_map, disk, faults, fetches, rendered,
                    entered, batch0 >>

\* chromium.launch and browser.new_context return.
StandaloneOk ==
    /\ run.pc = "standalone"
    /\ run' = [run EXCEPT !.pc = "gate"]
    /\ engine' = Engine(engine, [engine EXCEPT !.browser = "open", !.context = "open"])
    /\ UNCHANGED << cfg, aside, written, operations, rw, html_files, stack, tasks, visited_urls, downloaded_files,
                    failed_downloads, stats, resource_map, disk, faults, fetches, rendered,
                    entered, batch0 >>

\* chromium.launch or browser.new_context raises: "except Exception ... raise".
StandaloneFails ==
    /\ run.pc = "standalone"
    /\ run' = Ended("raised", "engine init")
    /\ operations' = BodyLeaves(operations, "raised")
    /\ engine' \in {Engine(engine, [engine EXCEPT !.browser = browser]) :
                     browser \in {"none", "open"}}
    /\ UNCHANGED << cfg, aside, written, rw, html_files, stack, tasks, visited_urls, downloaded_files,
                    failed_downloads, stats, resource_map, disk, faults, fetches, rendered,
                    entered, batch0 >>

\* not wait_for_confirmation: the output directory is created and the crawl begins.
GateSkipped ==
    /\ run.pc = "gate"
    /\ BeginCrawl
    /\ UNCHANGED << cfg, aside, engine, written, operations, rw, html_files, tasks, visited_urls, downloaded_files,
                    failed_downloads, stats, resource_map, disk, faults, fetches, rendered,
                    entered, batch0 >>

\* Mutant of GateNavigateOk: the output directory is created before the operator
\* is asked.
GateNavigateOk_mkdir ==
    /\ run.pc = "gate"
    /\ run' = [run EXCEPT !.pc = "confirm", !.outdir = TRUE]
    /\ UNCHANGED << cfg, aside, engine, written, operations, rw, html_files, stack, tasks, visited_urls, downloaded_files,
                    failed_downloads, stats, resource_map, disk, faults, fetches, rendered,
                    entered, batch0 >>

\* wait_for_confirmation: page.goto(start_url, wait_until='networkidle') returns and
\* the operator is asked.
GateNavigateOk ==
    /\ run.pc = "gate"
    /\ run' = [run EXCEPT !.pc = "confirm"]
    /\ UNCHANGED << cfg, aside, engine, written, operations, rw, html_files, stack, tasks, visited_urls, downloaded_files,
                    failed_downloads, stats, resource_map, disk, faults, fetches, rendered,
                    entered, batch0 >>

\* wait_for_confirmation: context.new_page() or page.goto(start_url, ...) raises;
\* the try has a finally and no handler, so the outer handler re-raises.
GateNavigateRaises ==
    /\ run.pc = "gate"
    /\ run' = Ended("raised", "start page navigation")
    /\ operations' = BodyLeaves(operations, "raised")
    /\ engine' = Engine(engine, Finally(engine))
    /\ UNCHANGED << cfg, aside, written, rw, html_files, stack, tasks, visited_urls, downloaded_files,
                    failed_downloads, stats, resource_map, disk, faults, fetches, rendered,
                    entered, batch0 >>

\* The operator answers 'y': the output directory is created and the crawl begins.
Confirmed ==
    /\ run.pc = "confirm"
    /\ BeginCrawl
    /\ engine' = Engine(engine, [engine EXCEPT !.existing_page = TRUE])
    /\ UNCHANGED << cfg, aside, written, operations, rw, html_files, tasks, visited_urls, downloaded_files,
                    failed_downloads, stats, resource_map, disk, faults, fetches, rendered,
                    entered, batch0 >>

\* The operator answers 'n': return {}.
Declined ==
    /\ run.pc = "confirm"
    /\ run' = Ended("cancelled", "confirmation declined")
    /\ operations' = BodyLeaves(operations, "cancelled")
    /\ engine' = Engine(engine, Finally(engine))
    /\ UNCHANGED << cfg, aside, written, rw, html_files, stack, tasks, visited_urls, downloaded_files,
                    failed_downloads, stats, resource_map, disk, faults, fetches, rendered,
                    entered, batch0 >>

ReportPath == << "download_report.json" >>

\* _generate_report: the 'statistics' of the report.
_generate_report ==
    [pages_downloaded |-> stats.pages, css_files |-> stats.css, js_files |-> stats.js,
     images |-> stats.images, fonts |-> stats.fonts, other_files |-> stats.other,
     total_files |-> stats.css + stats.js + stats.images + stats.fonts + stats.other,
     total_size_bytes |-> stats.total_size]

\* The page recursion has returned: the report is generated, written, returned.
ReportSaved ==
    /\ run.pc = "crawl"
    /\ stack = <<>>
    /\ run' = Ended("report", "-")
    /\ operations' = BodyLeaves(operations, "report")
    /\ disk' = (ReportPath :> Rel(ReportPath, ".json")) @@ disk
    /\ engine' = Engine(engine, Finally(engine))
    /\ UNCHANGED << cfg, aside, written, rw, html_files, stack, tasks, visited_urls, downloaded_files,
                    failed_downloads, stats, resource_map, faults, fetches, rendered,
                    entered, batch0 >>

\* save_json(report, ...) raises: "except Exception ... raise".
ReportRaises ==
    /\ run.pc = "crawl"
    /\ stack = <<>>
    /\ faults < MaxFaults
    /\ faults' = faults + 1
    /\ run' = Ended("raised", "report write")
    /\ operations' = BodyLeaves(operations, "raised")
    /\ engine' = Engine(engine, Finally(engine))
    /\ UNCHANGED << cfg, aside, written, rw, html_files, stack, tasks, visited_urls, downloaded_files,
                    failed_downloads, stats, resource_map, disk, fetches, rendered,
                    entered, batch0 >>

(***************************************************************************)
(* The page recursion: _download_recursive_with_context (entry "context",  *)
(* the one download() uses) and _download_recursive (entry "browser").     *)
(***************************************************************************)
Top == stack[Len(stack)]

Pop == stack' = SubSeq(stack, 1, Len(stack) - 1)

SetTop(f) == stack' = [stack EXCEPT ![Len(stack)] = f]

AtPc(pc) == stack # <<>> /\ Top.pc = pc

\* Mutant of DepthExceeded: the depth check is off by one.
DepthExceeded_late(depth) == depth > cfg.max_depth + 1

\* if depth > max_depth: return
DepthExceeded(depth) == depth > cfg.max_depth

\* Mutant of PageLimitReached: > in place of >=.
PageLimitReached_late == Cardinality(visited_urls) > cfg.max_pages

\* if len(self.visited_urls) >= max_pages: return
PageLimitReached == Cardinality(visited_urls) >= cfg.max_pages

\* if not follow_external_links: if not is_same_domain(url, self.start_url): return
ExternalRefused(url) == ~cfg.follow_external_links /\ ~is_same_domain(url, StartUrl)

\* 'info' if 'Incoming markup' in error_msg else 'error'
PageSeverity(msg) == IF msg = "Incoming markup is of an invalid type" THEN "info" ELSE "error"

PageFailure(url, msg) ==
    [url |-> url, type |-> NoKey, error |-> msg, severity |-> PageSeverity(msg)]

\* The four checks at the head of the recursive call, then visited_urls.add(url).
Enter ==
    /\ AtPc("call")
    /\ IF \/ DepthExceeded(Top.depth)
          \/ Top.url \in visited_urls
          \/ PageLimitReached
          \/ ExternalRefused(Top.url)
       THEN /\ Pop
            /\ UNCHANGED << visited_urls, entered >>
       ELSE /\ visited_urls' = visited_urls \cup {Top.url}
            /\ entered' = entered \cup {<< Top.url, Top.depth >>}
            /\ SetTop([Top EXCEPT !.pc = "render"])
    /\ UNCHANGED << cfg, aside, engine, written, operations, run, rw, html_files, tasks, downloaded_files, failed_downloads, stats, resource_map,
                    disk, faults, fetches, rendered, batch0 >>

\* page = existing_page, the confirmed page download() hands to the call for the
\* start URL, or page = await context.new_page() / browser.new_page(...): the
\* page opened for the URL of the frame is open.
Opened(e, frame) ==
    IF cfg.entry = "context" /\ e.existing_page /\ frame.depth = 0 THEN e
    ELSE [e EXCEPT !.pages = @ \cup {frame.url}]

\* Mutant of AfterRender: the tasks of the page are started and not awaited.
AfterRender_detached(dts) == "extract"

\* await self._download_page_resources(...): the call goes on to the links of the
\* page when the gather of the page's tasks has returned.
AfterRender(dts) == IF dts = <<>> THEN "extract" ELSE "batch"

\* The page is rendered and its markup saved: _save_html rewrites the links with
\* the registry as it stands, writes the file and registers the page; then
\* stats['pages'] is counted and the download_tasks of the page are collected.
RenderOk ==
    /\ AtPc("render")
    /\ LET url == Top.url
           path == url_to_filename(url)
           dts == DownloadTasks(url)
       IN /\ rendered' = Append(rendered, [url |-> url, out |-> "ok"])
          /\ disk' = (path :> url) @@ disk
          /\ html_files' = (url :> _rewrite_html_links(Markup(url), url)) @@ html_files
          /\ resource_map' = (url :> path) @@ resource_map
          /\ stats' = [stats EXCEPT !.pages = @ + 1]
          /\ tasks' = dts
          /\ batch0' = [nfail |-> Len(failed_downloads), nfiles |-> FilesCount(stats)]
          /\ SetTop([Top EXCEPT !.pc = AfterRender(dts)])
    /\ engine' = Engine(engine, Opened(engine, Top))
    /\ UNCHANGED << cfg, aside, written, operations, run, rw, visited_urls, downloaded_files, failed_downloads, faults,
                    fetches, entered >>

RenderErrors == {"navigation error", "render timeout", "save error"}

\* new_page, goto, wait_for_load_state, content or _save_html raises: the handler
\* of the recursive call appends the failure and the call returns.
RenderRaises ==
    /\ AtPc("render")
    /\ faults < MaxFaults
    /\ \E msg \in RenderErrors :
          /\ failed_downloads' = Append(failed_downloads, PageFailure(Top.url, msg))
          /\ rendered' = Append(rendered, [url |-> Top.url, out |-> msg])
    /\ faults' = faults + 1
    /\ Pop
    /\ engine' = Engine(engine, Opened(engine, Top))
    /\ UNCHANGED << cfg, aside, written, operations, run, rw, html_files, tasks, visited_urls, downloaded_files, stats, resource_map, disk,
                    fetches, entered, batch0 >>

\* _get_page_content_with_retry returns None: "if html is None: return".
RenderNoContent ==
    /\ AtPc("render")
    /\ cfg.entry = "context"
    /\ faults < MaxFaults
    /\ faults' = faults + 1
    /\ rendered' = Append(rendered, [url |-> Top.url, out |-> "no content"])
    /\ Pop
    /\ engine' = Engine(engine, Opened(engine, Top))
    /\ UNCHANGED << cfg, aside, written, operations, run, rw, html_files, tasks, visited_urls, downloaded_files, failed_downloads, stats,
                    resource_map, disk, fetches, entered, batch0 >>

\* links = await self._extract_links(page, url): the Page object is handed to
\* BeautifulSoup, which raises; the handler appends the failure.
ExtractRaises ==
    /\ AtPc("extract")
    /\ cfg.entry = "context"
    /\ \E msg \in Bs4Messages :
          failed_downloads' = Append(failed_downloads, PageFailure(Top.url, msg))
    /\ Pop
    /\ UNCHANGED << cfg, aside, engine, written, operations, run, rw, html_files, tasks, visited_urls, downloaded_files, stats, resource_map, disk,
                    faults, fetches, rendered, entered, batch0 >>

\* links = self._extract_links(html, url)
ExtractLinks ==
    /\ AtPc("extract")
    /\ cfg.entry = "browser"
    /\ SetTop([Top EXCEPT !.pc = "loop", !.links = _extract_links(Markup(Top.url), Top.url),
                          !.i = 1])
    /\ UNCHANGED << cfg, aside, engine, written, operations, run, rw, html_files, tasks, visited_urls, downloaded_files, failed_downloads, stats,
                    resource_map, disk, faults, fetches, rendered, entered, batch0 >>

\* for link in links: await self._download_recursive(browser, link, depth + 1)
Recurse ==
    /\ AtPc("loop")
    /\ Top.i <= Len(Top.links)
    /\ stack' = Append([stack EXCEPT ![Len(stack)].i = @ + 1],
                       Frame(Top.links[Top.i], Top.depth + 1, "call"))
    /\ UNCHANGED << cfg, aside, engine, written, operations, run, rw, html_files, tasks, visited_urls, downloaded_files, failed_downloads, stats,
                    resource_map, disk, faults, fetches, rendered, entered, batch0 >>

\* The loop is over: await page.close() and the call returns.
Return ==
    /\ AtPc("loop")
    /\ Top.i > Len(Top.links)
    /\ Pop
    /\ engine' = Engine(engine, [engine EXCEPT !.pages = @ \ {Top.url}])
    /\ UNCHANGED << cfg, aside, written, operations, run, rw, html_files, tasks, visited_urls, downloaded_files, failed_downloads, stats,
                    resource_map, disk, faults, fetches, rendered, entered, batch0 >>

(***************************************************************************)
(* The resource batch of a page: _download_page_resources from line 928,   *)
(* _download_resource, _process_css_resources, _download_data_uri.         *)
(***************************************************************************)
\* The tasks gathered together under one semaphore: those of the page (parent 0)
\* or those queued from the stylesheet fetched by task p.
Batch(p) == {j \in 1..Len(tasks) : tasks[j].parent = p}

\* The tasks inside "async with semaphore" of their batch.
Holding(p) == {j \in Batch(p) : tasks[j].st \in {"fly", "css"}}

\* asyncio.Semaphore(max_concurrent): a slot is free and the waiters enter in order.
MayAcquire(i) ==
    /\ Cardinality(Holding(tasks[i].parent)) < cfg.parallel_resource_downloads
    /\ \A j \in Batch(tasks[i].parent) : j < i => tasks[j].st # "wait"

\* The transfers in flight: tasks waiting for asyncio.to_thread(requests.get, ...).
InFlight == {j \in 1..Len(tasks) : tasks[j].st = "fly"}

AllDone == \A j \in 1..Len(tasks) : tasks[j].st = "done"

\* asyncio.gather schedules the first step of every task of the page before it
\* yields, and the event loop runs the steps it has queued before it handles what
\* is queued later: until the first transfer of the batch is handled, a task of
\* the page that can enter the semaphore does so before any transfer is handled.
FirstSteps ==
    /\ \A k \in 1..Len(tasks) : tasks[k].url.scheme # "data" => tasks[k].res \in {"-", "skip"}
    /\ \E j \in Batch(0) : tasks[j].st = "wait" /\ MayAcquire(j)

Bump(f, x) == IF x \in DOMAIN f THEN [f EXCEPT ![x] = @ + 1] ELSE (x :> 1) @@ f

Count(f, x) == IF x \in DOMAIN f THEN f[x] ELSE 0

\* Mutant of AlreadyDownloaded: no URL is taken for downloaded.
AlreadyDownloaded_never(url) == FALSE

\* if url in self.downloaded_files: return
AlreadyDownloaded(url) == url \in downloaded_files

\* Mutant of MarkDownloaded: the URL is not remembered.
MarkDownloaded_forgets(url) == downloaded_files

\* self.downloaded_files.add(url)
MarkDownloaded(url) == downloaded_files \cup {url}

ResFailure(url, rtype, msg, severity) ==
    [url |-> url, type |-> rtype, error |-> msg, severity |-> severity]

\* Mutant of Counted: the size of the file is not added.
Counted_unsized(st, rtype, size) == [st EXCEPT ![rtype] = @ + 1]

\* self.stats[resource_type] += 1; self.stats['total_size'] += file_size
Counted(st, rtype, size) ==
    [st EXCEPT ![rtype] = @ + 1, !.total_size = @ + size]

\* re.match(r'data:([^;,]+)?(;base64)?,(.+)', data_uri): the media type, whether
\* ";base64" is there, and the data; no match when nothing follows the comma.
DataParts(url) ==
    CASE url = DataPng -> [match |-> TRUE, mime |-> "image/png", base64 |-> TRUE, data |-> "QUJD"]
      [] url = DataRaw -> [match |-> TRUE, mime |-> "image/png", base64 |-> FALSE, data |-> "ABC"]
      [] url = DataBad -> [match |-> TRUE, mime |-> "image/png", base64 |-> TRUE, data |-> "A"]
      [] OTHER -> [match |-> FALSE, mime |-> "", base64 |-> FALSE, data |-> ""]

DecodeError == "<binascii.Error>"

\* base64.b64decode(data): the bytes, or binascii.Error for a length no padding fits.
b64decode(data) == IF data = "QUJD" THEN "ABC" ELSE DecodeError

\* urllib.parse.unquote(data).encode('utf-8'): nothing here is percent-encoded.
unquote(data) == data

\* file_content of a data: URI the pattern matches.
FileContent(url) ==
    IF DataParts(url).base64 THEN b64decode(DataParts(url).data)
    ELSE unquote(DataParts(url).data)

\* ext_map.get(mime_type, '.dat')
ExtOfMime(mime_type) ==
    CASE mime_type = "image/svg+xml" -> ".svg"
      [] mime_type = "image/png" -> ".png"
      [] mime_type = "image/jpeg" -> ".jpg"
      [] mime_type = "image/gif" -> ".gif"
      [] mime_type = "image/webp" -> ".webp"
      [] mime_type = "text/css" -> ".css"
      [] mime_type \in {"text/javascript", "application/javascript"} -> ".js"
      [] OTHER -> ".dat"

\* hashlib.md5(file_content).hexdigest()[:12]
Md5Hex12(file_content) ==
    IF file_content = "ABC" THEN "902fbdd2b1df" ELSE "d41d8cd98f00"

DataKind(url) ==
    IF ~DataParts(url).match THEN "nomatch"
    ELSE IF FileContent(url) = DecodeError THEN "decode error"
    ELSE "ok"

\* Mutant of DataPath: the file is named after the text of the URI.
DataPath_by_uri(url) ==
    << "data-uris", "data_uri_" \o DataParts(url).data \o ExtOfMime(DataParts(url).mime) >>

\* output_dir / 'data-uris' / f"data_uri_{file_hash}{ext}"
DataPath(url) ==
    << "data-uris",
       "data_uri_" \o Md5Hex12(FileContent(url)) \o ExtOfMime(DataParts(url).mime) >>

\* len(file_content)
DataSize(url) == 3

\* History: the file of url has been written whole, as a resource of this type.
Written(w, url, rtype, size) == w \cup {[url |-> url, type |-> rtype, size |-> size]}

\* Mutant of ResolvesStylesheet: every stylesheet fetched is resolved, whoever
\* referred to it.
ResolvesStylesheet_any(rtype, base) == TRUE

\* if resource_type == 'css' and base_url: await self._process_css_resources(...)
ResolvesStylesheet(rtype, base) == rtype = "css" /\ base

SetTask(i, st, res) == [tasks EXCEPT ![i].st = st, ![i].res = res]

\* A task enters its semaphore and runs _download_resource up to its first await:
\* a URL already in downloaded_files is skipped, a data: URI is decoded and
\* written at once, any other URL is handed to a worker thread.
StartTask(i) ==
    /\ AtPc("batch")
    /\ tasks[i].st = "wait"
    /\ MayAcquire(i)
    /\ LET url == tasks[i].url
           rtype == tasks[i].rtype
       IN IF AlreadyDownloaded(url)
          THEN /\ tasks' = SetTask(i, "done", "skip")
               /\ UNCHANGED << downloaded_files, fetches, failed_downloads, stats,
                               resource_map, disk, written >>
          ELSE /\ downloaded_files' = MarkDownloaded(url)
               /\ fetches' = Bump(fetches, url)
               /\ IF url.scheme # "data"
                  THEN /\ tasks' = SetTask(i, "fly", "-")
                       /\ UNCHANGED << failed_downloads, stats, resource_map, disk, written >>
                  ELSE CASE DataKind(url) = "nomatch" ->
                              /\ tasks' = SetTask(i, "done", "invalid data URI")
                              /\ UNCHANGED << failed_downloads, stats, resource_map, disk, written >>
                         [] DataKind(url) = "ok" ->
                              /\ tasks' = SetTask(i, "done", "ok")
                              /\ disk' = (DataPath(url) :> url) @@ disk
                              /\ stats' = Counted(stats, rtype, DataSize(url))
                              /\ resource_map' = (url :> DataPath(url)) @@ resource_map
                              /\ written' = Written(written, url, rtype, DataSize(url))
                              /\ UNCHANGED failed_downloads
                         [] OTHER ->
                              /\ tasks' = SetTask(i, "done", "decode error")
                              /\ failed_downloads' = Append(failed_downloads,
                                     ResFailure(U("", "", << "data-uri" >>, ""), rtype,
                                                "decode error", NoKey))
                              /\ UNCHANGED << stats, resource_map, disk, written >>
    /\ UNCHANGED << cfg, aside, engine, operations, run, rw, html_files, stack, visited_urls, faults, rendered, entered, batch0 >>

\* '404' in str(e), where str(e) is "<status> ... Error: ... for url: <url>".
Has404(status, url) == status = 404 \/ TextHas404(url)

HttpError(status) == IF status = 404 THEN "404 Client Error" ELSE "500 Server Error"

\* Mutant of HttpFailure: a 404 is reported like any other HTTP error.
HttpFailure_warning(url, rtype, status) ==
    ResFailure(url, rtype, HttpError(status), "warning")

\* except requests.exceptions.HTTPError
HttpFailure(url, rtype, status) ==
    IF Has404(status, url)
    THEN ResFailure(url, rtype, "404 Not Found", "info")
    ELSE ResFailure(url, rtype, HttpError(status), "warning")

\* Mutant of OtherFailure: the failure is reported with severity error.
OtherFailure_error(url, rtype, msg) == ResFailure(url, rtype, msg, "error")

\* except requests.exceptions.RequestException / except Exception
OtherFailure(url, rtype, msg) == ResFailure(url, rtype, msg, "warning")

ErrorStatuses == {404, 500}
NetworkErrors == {"connection error", "timeout"}
DiskErrors == {"mkdir error", "write error"}

\* The worker thread returns a good response: the body is written, counted and
\* registered; a stylesheet fetched for a page then has its url(...) references
\* gathered under a semaphore of their own, while the task keeps its slot.
TransferOk(i) ==
    /\ AtPc("batch")
    /\ tasks[i].st = "fly"
    /\ ~FirstSteps
    /\ LET url == tasks[i].url
           rtype == tasks[i].rtype
           path == url_to_filename(url)
           urls == IF ResolvesStylesheet(rtype, tasks[i].base)
                   THEN _parse_css_urls(CssText(url), url) ELSE <<>>
       IN /\ disk' = (path :> url) @@ disk
          /\ stats' = Counted(stats, rtype, Size(url))
          /\ resource_map' = (url :> path) @@ resource_map
          /\ written' = Written(written, url, rtype, Size(url))
          /\ tasks' = IF urls = <<>> THEN SetTask(i, "done", "ok")
                      ELSE SetTask(i, "css", "ok") \o TypedTasks(urls, FALSE, i)
    /\ UNCHANGED << cfg, aside, engine, operations, run, rw, html_files, stack, visited_urls, downloaded_files, failed_downloads, faults,
                    fetches, rendered, entered, batch0 >>

\* The transfer or the writing of the file raises: one of the three handlers of
\* _download_resource appends the failure.
TransferFails(i) ==
    /\ AtPc("batch")
    /\ tasks[i].st = "fly"
    /\ ~FirstSteps
    /\ faults < MaxFaults
    /\ faults' = faults + 1
    /\ LET url == tasks[i].url
           rtype == tasks[i].rtype
       IN \/ \E status \in ErrorStatuses :
               /\ failed_downloads' = Append(failed_downloads, HttpFailure(url, rtype, status))
               /\ tasks' = SetTask(i, "done", HttpError(status))
               /\ UNCHANGED disk
          \/ \E msg \in NetworkErrors :
               /\ failed_downloads' = Append(failed_downloads, OtherFailure(url, rtype, msg))
               /\ tasks' = SetTask(i, "done", msg)
               /\ UNCHANGED disk
          \/ \E msg \in DiskErrors :
               /\ failed_downloads' = Append(failed_downloads, OtherFailure(url, rtype, msg))
               /\ tasks' = SetTask(i, "done", msg)
               /\ disk' = IF msg = "write error" THEN (url_to_filename(url) :> url) @@ disk
                          ELSE disk
    /\ UNCHANGED << cfg, aside, engine, written, operations, run, rw, html_files, stack, visited_urls, downloaded_files, stats, resource_map,
                    fetches, rendered, entered, batch0 >>

\* The gather of a stylesheet's resources returns: the stylesheet's task leaves
\* its semaphore.
CssDone(i) ==
    /\ AtPc("batch")
    /\ tasks[i].st = "css"
    /\ \A j \in Batch(i) : tasks[j].st = "done"
    /\ tasks' = [tasks EXCEPT ![i].st = "done"]
    /\ UNCHANGED << cfg, aside, engine, written, operations, run, rw, html_files, stack, visited_urls, downloaded_files, failed_downloads, stats,
                    resource_map, disk, faults, fetches, rendered, entered, batch0 >>

\* asyncio.gather of the page's tasks returns.
BatchDone ==
    /\ AtPc("batch")
    /\ AllDone
    /\ tasks' = <<>>
    /\ SetTop([Top EXCEPT !.pc = "extract"])
    /\ UNCHANGED << cfg, aside, engine, written, operations, run, rw, html_files, visited_urls, downloaded_files, failed_downloads, stats,
                    resource_map, disk, faults, fetches, rendered, entered, batch0 >>

Next ==
    \/ WrapperEnters
    \/ StartPersistent
    \/ ChromeDeclined
    \/ StartStandalone
    \/ PersistentOk
    \/ PersistentFails
    \/ StandaloneOk
    \/ StandaloneFails
    \/ GateSkipped
    \/ GateNavigateOk
    \/ GateNavigateRaises
    \/ Confirmed
    \/ Declined
    \/ Enter
    \/ RenderOk
    \/ RenderRaises
    \/ RenderNoContent
    \/ \E i \in 1..Len(tasks) : StartTask(i)
    \/ \E i \in 1..Len(tasks) : TransferOk(i)
    \/ \E i \in 1..Len(tasks) : TransferFails(i)
    \/ \E i \in 1..Len(tasks) : CssDone(i)
    \/ BatchDone
    \/ ExtractRaises
    \/ ExtractLinks
    \/ Recurse
    \/ Return
    \/ ReportSaved
    \/ ReportRaises
    \/ WrapperLeaves

Spec == Init /\ [][Next]_vars

\* The event loop runs every coroutine that can take a step, and every render
\* request and every transfer returns or times out: no step that stays possible
\* is put off forever.
SpecFair == Spec /\ WF_vars(Next)

\* The same program with a clock that may move on between the two operation ids.
NextOps == Next \/ ClockTick

SpecOps == Init /\ [][NextOps]_vars

\* The same program with the browser, the context and the pages followed, one
\* transfer at a time and no link followed out of the domain.
InitEngine ==
    /\ cfg \in Configs
    /\ InitCrawl
    /\ cfg.parallel_resource_downloads = 1
    /\ ~cfg.follow_external_links
    /\ engine = NewEngine

SpecEngine == InitEngine /\ [][Next]_vars

\* self.config.get('download_css', True) and the like: a type is downloaded
\* unless its toggle is off; there is no toggle for 'other'.
Toggle(rtype) ==
    CASE rtype = "css" -> cfg.download_css
      [] rtype = "js" -> cfg.download_js
      [] rtype = "images" -> cfg.download_images
      [] rtype = "fonts" -> cfg.download_fonts
      [] OTHER -> TRUE

\* download() of the start page alone, with a standalone browser and no
\* confirmation, under every setting of the four toggles, nothing failing.
InitToggles ==
    /\ cfg \in [max_depth : {0}, max_pages : {1}, follow_external_links : {FALSE},
                 parallel_resource_downloads : {1}, download_css : BOOLEAN,
                 download_js : BOOLEAN, download_images : BOOLEAN,
                 download_fonts : BOOLEAN, entry : {"context"}]
    /\ InitCrawl
    /\ engine = NoEngine

NextToggles ==
    \/ WrapperEnters
    \/ StartStandalone
    \/ StandaloneOk
    \/ GateSkipped
    \/ Enter
    \/ RenderOk
    \/ \E i \in 1..Len(tasks) : StartTask(i)
    \/ \E i \in 1..Len(tasks) : TransferOk(i)
    \/ \E i \in 1..Len(tasks) : CssDone(i)
    \/ BatchDone
    \/ ExtractRaises
    \/ ReportSaved
    \/ WrapperLeaves

SpecToggles == InitToggles /\ [][NextToggles]_vars

(***************************************************************************)
(* The threads beside the event loop: the workers asyncio.to_thread hands  *)
(* requests.get to, and the MemoryMonitor thread _init_managers starts,    *)
(* with the callbacks the downloader registers on it.                      *)
(***************************************************************************)
MemoryLevels == {"normal", "warning", "critical"}

\* _check_memory: the callback lists run at a memory level.  _on_memory_warning
\* and _on_memory_critical are run; nothing runs self.cleanup_callbacks, where
\* _cleanup_resources is registered.
CallbacksRun(level) ==
    CASE level = "critical" -> {"critical"}
      [] level = "warning" -> {"warning"}
      [] OTHER -> {}

\* Mutant of RegisteredCaches: the visited set and the registry are handed to
\* add_cache.
RegisteredCaches_shared == {"visited_urls", "resource_map"}

\* Mutant of RegisteredCaches: the visited set is handed to add_cache.
RegisteredCaches_visited == {"visited_urls"}

\* Mutant of RegisteredCaches: the registry is handed to add_cache.
RegisteredCaches_registry == {"resource_map"}

\* self.caches: add_cache is called nowhere.
RegisteredCaches == {}

\* cleanup_all_caches, run at critical level by _check_memory and by
\* _on_memory_critical: cache.clear() for every registered cache.
CacheCleaned(level, name, cache, empty) ==
    IF level = "critical" /\ name \in RegisteredCaches THEN empty ELSE cache

\* _cleanup_resources on the visited set: beyond KeepVisited URLs, as many as
\* exceed it are removed, whichever list(set) puts first.
CleanedVisited(visited) ==
    IF Cardinality(visited) > KeepVisited
    THEN {visited \ gone : gone \in {g \in SUBSET visited :
                                         Cardinality(g) = Cardinality(visited) - KeepVisited}}
    ELSE {visited}

\* _cleanup_resources on the registry: the entries whose file does not exist go.
CleanedMap(map) ==
    [url \in {u \in DOMAIN map : map[u] \in DOMAIN disk} |-> map[url]]

\* requests.get returns or raises in its worker thread: the future of
\* asyncio.to_thread is resolved and nothing else is touched.
WorkerReturns(i) ==
    /\ AtPc("batch")
    /\ tasks[i].st = "fly"
    /\ tasks[i].url \notin threads.returned
    /\ threads' = [threads EXCEPT !.returned = @ \cup {tasks[i].url}]
    /\ UNCHANGED << cfg, tm, first, cleaner, retry, engine, written, operations, run, rw, html_files, stack, tasks,
                    visited_urls, downloaded_files, failed_downloads, stats, resource_map,
                    disk, faults, fetches, rendered, entered, batch0 >>

\* One turn of _monitor_loop in the MemoryMonitor thread: _check_memory runs
\* the callbacks of the level it finds and, at critical level, cleans the caches.
MonitorLoop ==
    /\ threads.loops < MaxLoops
    /\ threads' = [threads EXCEPT !.loops = @ + 1]
    /\ \E level \in MemoryLevels :
          /\ visited_urls' \in
                (IF "cleanup" \in CallbacksRun(level) THEN CleanedVisited(visited_urls)
                 ELSE {CacheCleaned(level, "visited_urls", visited_urls, {})})
          /\ resource_map' =
                (IF "cleanup" \in CallbacksRun(level) THEN CleanedMap(resource_map)
                 ELSE CacheCleaned(level, "resource_map", resource_map, << >>))
    /\ UNCHANGED << cfg, tm, first, cleaner, retry, engine, written, operations, run, rw, html_files, stack, tasks,
                    downloaded_files, failed_downloads, stats, disk, faults, fetches,
                    rendered, entered, batch0 >>

\* The coroutine of a transfer goes on once its worker thread has returned.
Returned(i) == tasks[i].url \in threads.returned

\* A crawl by the recursion that follows links, from the call for the start URL,
\* with the worker threads and the monitor thread as steps of their own.
InitThreads ==
    /\ cfg \in {c \in Configs : /\ c.entry = "browser"
                                /\ c.max_depth = 1
                                /\ c.max_pages = 2
                                /\ c.parallel_resource_downloads = MaxConc}
    /\ stack = << Frame(StartUrl, 0, "call") >>
    /\ run = [NewRun EXCEPT !.pc = "crawl", !.outdir = TRUE]
    /\ html_files = << >>
    /\ rw = NoRw
    /\ tasks = <<>>
    /\ visited_urls = {}
    /\ downloaded_files = {}
    /\ failed_downloads = <<>>
    /\ stats = [pages |-> 0, css |-> 0, js |-> 0, images |-> 0, fonts |-> 0, other |-> 0,
                total_size |-> 0]
    /\ resource_map = << >>
    /\ disk = << >>
    /\ faults = 0
    /\ fetches = << >>
    /\ rendered = <<>>
    /\ entered = {}
    /\ batch0 = [nfail |-> 0, nfiles |-> 0]
    /\ written = {}
    /\ operations = BodyEnters(start_operation([NoOperations EXCEPT !.op_id = OperationId(0)],
                                               OperationId(0)))
    /\ threads = NoThreads
    /\ tm = NoManager
    /\ cleaner = NoCleaner
    /\ retry = NoRetry
    /\ engine = [NewEngine EXCEPT !.browser = "open"]
    /\ first = NoFirst

NextThreads ==
    \/ Enter
    \/ RenderOk
    \/ RenderRaises
    \/ \E i \in 1..Len(tasks) : StartTask(i)
    \/ \E i \in 1..Len(tasks) : WorkerReturns(i)
    \/ \E i \in 1..Len(tasks) : Returned(i) /\ TransferOk(i)
    \/ \E i \in 1..Len(tasks) : Returned(i) /\ TransferFails(i)
    \/ \E i \in 1..Len(tasks) : CssDone(i)
    \/ BatchDone
    \/ ExtractLinks
    \/ Recurse
    \/ Return
    \/ MonitorLoop

SpecThreads == InitThreads /\ [][NextThreads]_vars

(***************************************************************************)
(* The resource batch of one page on its own: the call for Gallery.page as  *)
(* start URL has marked it visited and is about to render it.  All         *)
(* transfers succeed.  When the batch is over, its counters and registry   *)
(* are kept and a new downloader runs the same batch once more, so that    *)
(* two orders of the same transfers can be compared.                       *)
(***************************************************************************)
InitBatch ==
    /\ cfg \in {c \in Configs : /\ c.entry = "context"
                                /\ c.max_depth = 0
                                /\ c.max_pages = 1
                                /\ ~c.follow_external_links}
    /\ stack = << Frame(Gallery.page, 0, "render") >>
    /\ run = [NewRun EXCEPT !.pc = "crawl", !.outdir = TRUE]
    /\ html_files = << >>
    /\ rw = NoRw
    /\ tasks = <<>>
    /\ visited_urls = {Gallery.page}
    /\ downloaded_files = {}
    /\ failed_downloads = <<>>
    /\ stats = [pages |-> 0, css |-> 0, js |-> 0, images |-> 0, fonts |-> 0, other |-> 0,
                total_size |-> 0]
    /\ resource_map = << >>
    /\ disk = << >>
    /\ faults = 0
    /\ fetches = << >>
    /\ rendered = <<>>
    /\ entered = {<< Gallery.page, 0 >>}
    /\ batch0 = [nfail |-> 0, nfiles |-> 0]
    /\ written = {}
    /\ operations = BodyEnters(start_operation([NoOperations EXCEPT !.op_id = OperationId(0)],
                                               OperationId(0)))
    /\ threads = NoThreads
    /\ tm = NoManager
    /\ cleaner = NoCleaner
    /\ retry = NoRetry
    /\ engine = [NewEngine EXCEPT !.browser = "open", !.context = "open"]
    /\ first = [pc |-> "first"]

\* The batch is over: what it ended with is kept, and WebsiteDownloader.__init__
\* of a second run empties every structure before the same page is rendered.
Rerun ==
    /\ AtPc("extract")
    /\ first.pc = "first"
    /\ first' = [pc |-> "second", stats |-> stats, resource_map |-> resource_map]
    /\ stack' = << Frame(Gallery.page, 0, "render") >>
    /\ html_files' = << >>
    /\ downloaded_files' = {}
    /\ failed_downloads' = <<>>
    /\ stats' = [pages |-> 0, css |-> 0, js |-> 0, images |-> 0, fonts |-> 0, other |-> 0,
                 total_size |-> 0]
    /\ resource_map' = << >>
    /\ disk' = << >>
    /\ fetches' = << >>
    /\ rendered' = <<>>
    /\ batch0' = [nfail |-> 0, nfiles |-> 0]
    /\ written' = {}
    /\ UNCHANGED << cfg, threads, tm, cleaner, retry, engine, operations, run, rw, tasks, visited_urls,
                    faults, entered >>

NextBatch ==
    \/ RenderOk
    \/ \E i \in 1..Len(tasks) : StartTask(i)
    \/ \E i \in 1..Len(tasks) : TransferOk(i)
    \/ \E i \in 1..Len(tasks) : CssDone(i)
    \/ BatchDone
    \/ Rerun

SpecBatch == InitBatch /\ [][NextBatch]_vars

(***************************************************************************)
(* The thread manager on its own: one thread submits tasks with ids of     *)
(* their own to a started manager, as the tests do, and the threads of the *)
(* pool run _wrap_thread_task.  self._lock is a threading.Lock.            *)
(***************************************************************************)
crawl == << cfg, stack, tasks, visited_urls, downloaded_files, failed_downloads, stats,
            resource_map, disk, faults, fetches, rendered, entered, batch0, run,
            html_files, rw, written, operations, engine >>

beside_tm == << crawl, threads, first, cleaner, retry >>

\* What func(*args, **kwargs) returns for the task.
ReturnOf(id) == << "Task completed", id >>

\* Mutant of LockFree: the lock is taken whoever holds it.
LockFree_always == TRUE

\* with self._lock: the lock can be acquired.
LockFree == tm.lock = "-"

\* submit_thread_task up to the submit: the manager is not shut down and has its
\* pool, the lock is taken, the id is not active, and the task is recorded.
SubmitRecords ==
    /\ tm.pool
    /\ tm.submit.pc = "idle"
    /\ tm.submitted < MaxTasks
    /\ LockFree
    /\ LET task_id == tm.submitted + 1
       IN /\ task_id \notin tm.active_tasks
          /\ tm' = [tm EXCEPT !.lock = "submit",
                              !.submitted = task_id,
                              !.submit = [pc |-> "recorded", id |-> task_id],
                              !.tasks = (task_id :> "running") @@ @]
    /\ UNCHANGED beside_tm

\* future = self.thread_pool.submit(self._wrap_thread_task, task_id, func, ...)
SubmitQueues ==
    /\ tm.submit.pc = "recorded"
    /\ tm' = [tm EXCEPT !.submit.pc = "queued",
                        !.queue = Append(@, tm.submit.id),
                        !.future = (tm.submit.id :> [state |-> "pending", value |-> "-"]) @@ @]
    /\ UNCHANGED beside_tm

\* self.active_tasks[task_id] = future; the lock is released and the future returned.
SubmitReturns ==
    /\ tm.submit.pc = "queued"
    /\ tm' = [tm EXCEPT !.submit = [pc |-> "idle", id |-> 0],
                        !.active_tasks = @ \cup {tm.submit.id},
                        !.lock = "-"]
    /\ UNCHANGED beside_tm

\* A thread of the pool takes the next work item and calls _wrap_thread_task.
WorkerTakes(w) ==
    /\ tm.worker[w].pc = "idle"
    /\ tm.queue # <<>>
    /\ tm' = [tm EXCEPT !.queue = Tail(@),
                        !.future[Head(tm.queue)].state = "running",
                        !.worker[w] = [pc |-> "func", id |-> Head(tm.queue), out |-> "-",
                                       result |-> "-"]]
    /\ UNCHANGED beside_tm

\* result = func(*args, **kwargs): the function returns, or raises.
FuncEnds(w) ==
    /\ tm.worker[w].pc = "func"
    /\ \E out \in {"returned", "raised"} :
          tm' = [tm EXCEPT !.worker[w].pc = "ran",
                           !.worker[w].out = out,
                           !.worker[w].result = IF out = "returned"
                                                THEN ReturnOf(tm.worker[w].id) ELSE "-"]
    /\ UNCHANGED beside_tm

\* with self._lock: the status becomes 'completed' or 'failed' and the task
\* leaves active_tasks, if it is there.
WorkerRecords(w) ==
    /\ tm.worker[w].pc = "ran"
    /\ LockFree
    /\ LET task_id == tm.worker[w].id
       IN tm' = [tm EXCEPT !.worker[w].pc = "recorded",
                           !.tasks = IF task_id \in DOMAIN @
                                     THEN [@ EXCEPT ![task_id] =
                                             IF tm.worker[w].out = "returned"
                                             THEN "completed" ELSE "failed"]
                                     ELSE @,
                           !.active_tasks = @ \ {task_id}]
    /\ UNCHANGED beside_tm

\* return result, or raise: the executor sets the result or the exception of
\* the future and the thread is free again.
WorkerFinishes(w) ==
    /\ tm.worker[w].pc = "recorded"
    /\ LET task_id == tm.worker[w].id
       IN tm' = [tm EXCEPT !.worker[w] = [pc |-> "idle", id |-> 0, out |-> "-", result |-> "-"],
                           !.future[task_id] =
                               IF tm.worker[w].out = "returned"
                               THEN [state |-> "result", value |-> tm.worker[w].result]
                               ELSE [state |-> "exception", value |-> "-"]]
    /\ UNCHANGED beside_tm

\* thread_manager.start() has been called.
InitManager ==
    /\ cfg \in {c \in Configs : /\ c.entry = "context"
                                /\ c.max_depth = 0
                                /\ c.max_pages = 1
                                /\ ~c.follow_external_links
                                /\ c.parallel_resource_downloads = 1}
    /\ stack = <<>>
    /\ run = NewRun
    /\ html_files = << >>
    /\ rw = NoRw
    /\ tasks = <<>>
    /\ visited_urls = {}
    /\ downloaded_files = {}
    /\ failed_downloads = <<>>
    /\ stats = [pages |-> 0, css |-> 0, js |-> 0, images |-> 0, fonts |-> 0, other |-> 0,
                total_size |-> 0]
    /\ resource_map = << >>
    /\ disk = << >>
    /\ faults = 0
    /\ fetches = << >>
    /\ rendered = <<>>
    /\ entered = {}
    /\ batch0 = [nfail |-> 0, nfiles |-> 0]
    /\ written = {}
    /\ operations = NoOperations
    /\ threads = NoThreads
    /\ first = NoFirst
    /\ tm = [NoManager EXCEPT !.pool = TRUE]
    /\ cleaner = NoCleaner
    /\ retry = NoRetry
    /\ engine = NoEngine

NextManager ==
    \/ SubmitRecords
    \/ SubmitQueues
    \/ SubmitReturns
    \/ \E w \in 1..MaxWorkers : WorkerTakes(w)
    \/ \E w \in 1..MaxWorkers : FuncEnds(w)
    \/ \E w \in 1..MaxWorkers : WorkerRecords(w)
    \/ \E w \in 1..MaxWorkers : WorkerFinishes(w)

\* Every thread that can take a step is scheduled in the end, and the submitted
\* functions end.
SpecManager == InitManager /\ [][NextManager]_vars /\ WF_vars(NextManager)

(***************************************************************************)
(* The process cleaner on its own: register_process, unregister_process    *)
(* and the cleanup calls with their default arguments (force=False,        *)
(* only_managed=True), in any order.                                       *)
(***************************************************************************)
beside_cleaner == << crawl, threads, tm, first, retry >>

\* self.managed_pids.add(pid)
register_process(pid) ==
    /\ cleaner' = [cleaner EXCEPT !.managed_pids = @ \cup {pid}]
    /\ UNCHANGED beside_cleaner

\* if pid in self.managed_pids: self.managed_pids.remove(pid)
unregister_process(pid) ==
    /\ cleaner' = [cleaner EXCEPT !.managed_pids = @ \ {pid}]
    /\ UNCHANGED beside_cleaner

\* terminate_process_gracefully for each process of a list, with
\* terminate_process_forcefully after a timeout: the processes of ended have
\* exited and are added to cleaned_processes; the others were denied or outlived
\* both signals.  History: who ended, on whose call, and whether it was registered.
Terminated(c, by, ended) ==
    [c EXCEPT !.running = @ \ ended,
              !.cleaned_processes = @ \cup ended,
              !.terminated = @ \cup {[pid |-> p, by |-> by, managed |-> p \in c.managed_pids] :
                                       p \in ended}]

\* get_browser_processes() without the cleaned ones and, as only_managed is
\* True, without those is_managed_process refuses.
BrowserTargets(c) ==
    {p \in c.running : /\ Procs[p].browser
                       /\ p \notin c.cleaned_processes
                       /\ p \in c.managed_pids}

\* get_playwright_processes(), the processes with 'playwright' in their command
\* line, without the cleaned ones.
PlaywrightTargets(c) ==
    {p \in c.running : Procs[p].playwright /\ p \notin c.cleaned_processes}

terminate_browser_processes ==
    /\ \E ended \in SUBSET BrowserTargets(cleaner) :
          cleaner' = Terminated(cleaner, "browser", ended)
    /\ UNCHANGED beside_cleaner

terminate_playwright_processes ==
    /\ \E ended \in SUBSET PlaywrightTargets(cleaner) :
          cleaner' = Terminated(cleaner, "playwright", ended)
    /\ UNCHANGED beside_cleaner

\* cleanup_all: the browser processes, then the Playwright processes, then the
\* temporary files, which are no process.
cleanup_all ==
    /\ \E ended \in SUBSET BrowserTargets(cleaner) :
          LET c == Terminated(cleaner, "browser", ended)
          IN \E more \in SUBSET PlaywrightTargets(c) :
                cleaner' = Terminated(c, "playwright", more)
    /\ UNCHANGED beside_cleaner

\* Nothing has been called yet; one configuration.
InitIdle ==
    /\ Init
    /\ cfg.entry = "context" /\ cfg.max_depth = 0 /\ cfg.max_pages = 1
    /\ ~cfg.follow_external_links /\ cfg.parallel_resource_downloads = 1

NextCleaner ==
    \/ \E pid \in DOMAIN Procs : register_process(pid)
    \/ \E pid \in DOMAIN Procs : unregister_process(pid)
    \/ terminate_browser_processes
    \/ terminate_playwright_processes
    \/ cleanup_all

SpecCleaner == InitIdle /\ [][NextCleaner]_vars

(***************************************************************************)
(* The page-content retry on its own: download() with a standalone browser *)
(* and no confirmation, the start page, and _get_page_content_with_retry   *)
(* with every outcome an attempt can have.                                 *)
(***************************************************************************)
\* What an attempt meets: _is_page_stable returns False (an exception inside it
\* makes it return False), page.content() raises, returns '', returns white
\* space only, or returns markup.
AttemptOutcomes == {"unstable", "raises", "empty", "blank", "html"}

\* Mutant of GotContent: "if html:" without the strip.
GotContent_unstripped(outcome) == outcome \in {"blank", "html"}

\* if await self._is_page_stable(page): html = await page.content()
\* if html and html.strip(): return html
GotContent(outcome) == outcome = "html"

\* retry_attempts = max_retries or dynamic_config.get('content_retry_attempts', 3)
RetryBegins ==
    /\ AtPc("render")
    /\ cfg.entry = "context"
    /\ retry.returned = "off"
    /\ \E n \in 0..MaxAttempts :
          retry' = [retry_attempts |-> n, attempts |-> <<>>, returned |-> "-"]
    /\ UNCHANGED << crawl, threads, tm, first, cleaner >>

\* One turn of "for attempt in range(retry_attempts)": the markup is returned,
\* or the failure is logged and, unless the turn was the last, the delay slept.
Attempt ==
    /\ AtPc("render")
    /\ retry.returned = "-"
    /\ Len(retry.attempts) < retry.retry_attempts
    /\ \E outcome \in AttemptOutcomes :
          retry' = [retry EXCEPT !.attempts = Append(@, outcome),
                                 !.returned = IF GotContent(outcome) THEN "html" ELSE "-"]
    /\ UNCHANGED << crawl, threads, tm, first, cleaner >>

\* The loop is over: return None.
RetryGivesUp ==
    /\ AtPc("render")
    /\ retry.returned = "-"
    /\ Len(retry.attempts) >= retry.retry_attempts
    /\ retry' = [retry EXCEPT !.returned = "None"]
    /\ UNCHANGED << crawl, threads, tm, first, cleaner >>

NextRetry ==
    \/ WrapperEnters
    \/ StartStandalone
    \/ StandaloneOk
    \/ GateSkipped
    \/ Enter
    \/ RetryBegins
    \/ Attempt
    \/ RetryGivesUp
    \/ retry.returned = "html" /\ RenderOk
    \/ retry.returned = "None" /\ RenderNoContent
    \/ ReportSaved
    \/ WrapperLeaves

SpecRetry == InitIdle /\ [][NextRetry]_vars

(***************************************************************************)
(* The link rewriter on its own: _rewrite_html_links applied to a markup   *)
(* with one image reference, for a page URL and a registry drawn from the  *)
(* sets below, and applied again to its own result.                        *)
(***************************************************************************)
PageDocsSlash == U("https", "a.com", << "", "docs", "" >>, "")
ImgDocs == U("https", "a.com", << "", "docs", "i.png" >>, ".png")
ImgRoot == U("https", "a.com", << "", "i.png" >>, ".png")

RwPages == {StartUrl, PageDocs, PageDocsSlash, PageApi}

RwResources == {CssMain, ImgLogo, ImgDocs, ImgRoot, DataPng}

\* What self.resource_map holds for a stored URL.
RegisteredPath(url) == IF url.scheme = "data" THEN DataPath(url) ELSE url_to_filename(url)

Registries == {[u \in D |-> RegisteredPath(u)] : D \in SUBSET RwResources}

InitRewrite ==
    /\ cfg \in {c \in Configs : /\ c.max_depth = 0
                                /\ c.max_pages = 1
                                /\ ~c.follow_external_links
                                /\ c.parallel_resource_downloads = 1
                                /\ c.entry = "context"}
    /\ stack = <<>>
    /\ run = NewRun
    /\ html_files = << >>
    /\ tasks = <<>>
    /\ visited_urls = {}
    /\ downloaded_files = {}
    /\ failed_downloads = <<>>
    /\ stats = [pages |-> 0, css |-> 0, js |-> 0, images |-> 0, fonts |-> 0, other |-> 0,
                total_size |-> 0]
    /\ disk = << >>
    /\ faults = 0
    /\ fetches = << >>
    /\ rendered = <<>>
    /\ entered = {}
    /\ batch0 = [nfail |-> 0, nfiles |-> 0]
    /\ written = {}
    /\ operations = NoOperations
    /\ threads = NoThreads
    /\ tm = NoManager
    /\ cleaner = NoCleaner
    /\ retry = NoRetry
    /\ engine = NoEngine
    /\ first = NoFirst
    /\ resource_map \in Registries
    /\ \E base_url \in RwPages, ref \in RwResources :
          rw = [pc |-> "markup", base_url |-> base_url,
                html |-> [NoMarkup EXCEPT !.imgs = << ref >>],
                once |-> NoMarkup, twice |-> NoMarkup]

\* html = self._rewrite_html_links(html, url)
RewriteOnce ==
    /\ rw.pc = "markup"
    /\ rw' = [rw EXCEPT !.pc = "once", !.once = _rewrite_html_links(rw.html, rw.base_url)]
    /\ UNCHANGED << cfg, aside, engine, written, operations, run, html_files, stack, tasks, visited_urls, downloaded_files,
                    failed_downloads, stats, resource_map, disk, faults, fetches, rendered,
                    entered, batch0 >>

\* The rewriter applied to the markup it produced.
RewriteTwice ==
    /\ rw.pc = "once"
    /\ rw' = [rw EXCEPT !.pc = "twice", !.twice = _rewrite_html_links(rw.once, rw.base_url)]
    /\ UNCHANGED << cfg, aside, engine, written, operations, run, html_files, stack, tasks, visited_urls, downloaded_files,
                    failed_downloads, stats, resource_map, disk, faults, fetches, rendered,
                    entered, batch0 >>

NextRewrite ==
    \/ RewriteOnce
    \/ RewriteTwice

SpecRewrite == InitRewrite /\ [][NextRewrite]_vars

(***************************************************************************)
(* Properties.                                                             *)
(***************************************************************************)
\* The page recursion was called and has returned.
CrawlOver == run.outdir /\ stack = <<>>

RenderedUrls == {rendered[k].url : k \in 1..Len(rendered)}

\* C1: under every interleaving of the tasks of every batch, each distinct
\* resource URL has had at most one transfer or data: decode started for it.
C1_FetchedAtMostOnce == \A u \in DOMAIN fetches : fetches[u] <= 1

\* C1 witness: on a second page, the stylesheet the first page already fetched is
\* skipped, after the image named by both a tag and that stylesheet was skipped too.
C1_Witness ==
    /\ Len(rendered) >= 2
    /\ Count(fetches, CssMain) = 1
    /\ Count(fetches, ImgE404) = 1
    /\ \E i \in 1..Len(tasks) : tasks[i].url = CssMain /\ tasks[i].res = "skip"

\* C2: the visited URLs never outnumber max_pages; only visited URLs are
\* rendered, each once, so no page is rendered beyond max_pages; with
\* max_pages = 1 nothing but the start page is ever visited.
C2_PageBudget ==
    /\ Cardinality(visited_urls) <= cfg.max_pages
    /\ RenderedUrls \subseteq visited_urls
    /\ Cardinality(RenderedUrls) = Len(rendered)
    /\ Len(rendered) <= cfg.max_pages
    /\ cfg.max_pages = 1 => visited_urls \subseteq {StartUrl}

\* C2 witness: max_pages pages are visited and the recursion has reached a further,
\* unvisited same-domain link within the depth bound, which only the page count stops.
C2_Witness ==
    /\ AtPc("call")
    /\ Cardinality(visited_urls) = cfg.max_pages
    /\ Top.url \notin visited_urls
    /\ ~DepthExceeded(Top.depth)
    /\ ~ExternalRefused(Top.url)

\* C3: every URL marked visited was entered at a depth <= max_depth; with
\* max_depth = 0 the crawl ends with visited_urls = {start_url}.
C3_DepthBound ==
    /\ \A e \in entered : e[2] <= cfg.max_depth
    /\ {e[1] : e \in entered} = visited_urls
    /\ (cfg.max_depth = 0 /\ CrawlOver) => visited_urls = {StartUrl}

\* C3 witness: with max_depth = 0 and room for more pages, the start page was saved,
\* its links were extracted and offered to the recursion, and the crawl has ended.
C3_Witness ==
    /\ cfg.max_depth = 0
    /\ cfg.max_pages > 1
    /\ cfg.entry = "browser"
    /\ stack = <<>>
    /\ stats.pages = 1
    /\ visited_urls = {StartUrl}

\* C4: when follow_external_links is off, every visited URL has the netloc of
\* the start URL.
C4_DomainFilter ==
    ~cfg.follow_external_links =>
        \A u \in visited_urls : get_domain_from_url(u) = get_domain_from_url(StartUrl)

\* C4 witness: with follow_external_links off, the links of the start page, which
\* names a page of another host, were extracted without it and are being followed.
C4_Witness ==
    /\ ~cfg.follow_external_links
    /\ Len(stack) >= 1
    /\ stack[1].pc = "loop"
    /\ stack[1].i > Len(stack[1].links)
    /\ PageExt \notin Range(stack[1].links)
    /\ Cardinality(visited_urls) >= 2

\* C5: no more transfers are in flight than parallel_resource_downloads, the
\* transfers queued from a fetched stylesheet included.
C5_ConcurrencyLimit == Cardinality(InFlight) <= cfg.parallel_resource_downloads

\* The URLs of the current batch whose fetch failed, and those stored by it.
BatchFailed == {tasks[j].url : j \in {k \in 1..Len(tasks) : tasks[k].res \notin {"-", "ok", "skip"}}}
BatchStored == {tasks[j].url : j \in {k \in 1..Len(tasks) : tasks[k].res = "ok"}}

\* C6: when a batch is over and exactly one of its resources failed, exactly one
\* failure was appended during the batch and every other resource fetched by it
\* is on disk, registered and counted.
C6_FailureIsolation ==
    (AtPc("batch") /\ AllDone /\ Cardinality(BatchFailed) = 1) =>
        /\ Len(failed_downloads) - batch0.nfail = 1
        /\ \A u \in BatchStored :
              u \in DOMAIN resource_map /\ resource_map[u] \in DOMAIN disk
        /\ FilesCount(stats) - batch0.nfiles = Cardinality(BatchStored)

\* What does hold of every finished batch, whatever failed in it: one failure was
\* appended for each resource whose transfer, write or decode failed (none for a
\* data: URI the pattern rejects), and every other resource fetched is on disk,
\* registered and counted.
BatchAccounting ==
    (AtPc("batch") /\ AllDone) =>
        /\ Len(failed_downloads) - batch0.nfail
              = Cardinality({u \in BatchFailed : ~(u.scheme = "data" /\ DataKind(u) = "nomatch")})
        /\ \A u \in BatchStored :
              u \in DOMAIN resource_map /\ resource_map[u] \in DOMAIN disk
        /\ FilesCount(stats) - batch0.nfiles = Cardinality(BatchStored)

\* C7: the step in which a transfer is answered 404 appends a failure of severity
\* info for that URL and type, and changes no counter of the statistics.
C7_NotFoundIsInfo ==
    [][\A i \in 1..Len(tasks) :
          (tasks[i].st = "fly" /\ tasks'[i].res = "404 Client Error") =>
              /\ failed_downloads' = Append(failed_downloads,
                     [url |-> tasks[i].url, type |-> tasks[i].rtype,
                      error |-> "404 Not Found", severity |-> "info"])
              /\ stats' = stats]_vars

\* C7 witness: a transfer of the batch was answered 404 and its failure is logged.
C7_Witness ==
    \E i \in 1..Len(tasks) :
        /\ tasks[i].res = "404 Client Error"
        /\ \E k \in 1..Len(failed_downloads) :
              failed_downloads[k].url = tasks[i].url /\ failed_downloads[k].severity = "info"

\* C8: a transfer that failed with an HTTP status other than 404, a network error
\* or a timeout has its failure logged with severity warning, whatever its URL.
C8_OtherFailuresAreWarnings ==
    \A i \in 1..Len(tasks) :
        tasks[i].res \in {"500 Server Error"} \cup NetworkErrors =>
            /\ \E k \in 1..Len(failed_downloads) : failed_downloads[k].url = tasks[i].url
            /\ \A k \in 1..Len(failed_downloads) :
                  failed_downloads[k].url = tasks[i].url =>
                      failed_downloads[k].severity = "warning"

C10_RenderFailureRecorded ==
    \A k \in 1..Len(rendered) :
        rendered[k].out # "ok" =>
            \E j \in 1..Len(failed_downloads) :
                /\ failed_downloads[j].url = rendered[k].url
                /\ failed_downloads[j].type = NoKey
                /\ failed_downloads[j].severity = "error"

\* The navigational links of a page: its http(s) anchors in absolute form, those
\* of another host left out unless external links are followed.
LinksOf(page_url) ==
    {u \in {normalize_url(a, page_url) : a \in Range(Markup(page_url).anchors)} :
        /\ u.scheme \in {"http", "https"}
        /\ cfg.follow_external_links \/ is_same_domain(u, StartUrl)}

\* C11: once the crawl is over, every navigational link of every page that was
\* rendered and saved has been visited, unless the depth bound or the page
\* budget stood against it.
C11_LinksFollowed ==
    CrawlOver =>
        \A e \in entered :
            (\E k \in 1..Len(rendered) : rendered[k].url = e[1] /\ rendered[k].out = "ok") =>
                \A link \in LinksOf(e[1]) :
                    (e[2] + 1 <= cfg.max_depth /\ Cardinality(visited_urls) < cfg.max_pages)
                        => link \in visited_urls

\* What _download_recursive does and C11 asks for: the same, for the entry point
\* download() does not use.
LegacyLinksFollowed == cfg.entry = "browser" => C11_LinksFollowed

\* Nothing of the crawl has happened: no output directory, no file, no page
\* rendered or saved, no resource fetched, no failure logged.
NothingDone ==
    /\ ~run.outdir
    /\ disk = << >>
    /\ html_files = << >>
    /\ resource_map = << >>
    /\ rendered = <<>>
    /\ fetches = << >>
    /\ visited_urls = {}
    /\ stats.pages = 0
    /\ stack = <<>>

\* C12: a run in which the operator declined at the confirmation gate has
\* returned the empty result, not raised, and nothing of the crawl has happened
\* in it: no output directory, no saved page, no fetched resource.
C12_DeclineIsCancelled ==
    run.cause = "confirmation declined" =>
        /\ run.pc = "done"
        /\ run.outcome = "cancelled"
        /\ NothingDone

\* C12 witness: the engine was launched, the start page shown, and the operator
\* declined.
C12_Witness == run.pc = "done" /\ run.cause = "confirmation declined"

\* C13: a run of download() that raised to its caller failed to initialise the
\* rendering engine; no failure met after the browser context was obtained
\* makes it raise.
C13_OnlyEngineInitRaises == run.outcome = "raised" => run.cause = "engine init"

C15_RewrittenAfterFetch ==
    (AtPc("batch") /\ AllDone) =>
        \A f \in {"stylesheets", "scripts", "imgs"} :
            \A i \in 1..Len(Markup(Top.url)[f]) :
                LET u == normalize_url(Markup(Top.url)[f][i], Top.url)
                IN (u \in BatchStored /\ u \in DOMAIN resource_map) =>
                       html_files[Top.url][f][i] = _get_relative_path(Top.url, u)

\* C18: no two distinct URLs of the registry have the same local path.
C18_DistinctPaths ==
    \A u1, u2 \in DOMAIN resource_map :
        u1 # u2 => resource_map[u1] # resource_map[u2]

\* The data: URIs that were decoded and stored.
StoredData == {u \in DOMAIN resource_map : u.scheme = "data"}

C20_MalformedDataIsWarning ==
    \A i \in 1..Len(tasks) :
        tasks[i].res \in {"invalid data URI", "decode error"} =>
            Len(failed_downloads) > batch0.nfail /\
            \E k \in (batch0.nfail + 1)..Len(failed_downloads) :
                /\ failed_downloads[k].type = tasks[i].rtype
                /\ failed_downloads[k].severity = "warning"

\* What does hold of a data: URI that cannot be stored: no file is written for
\* it, nothing is counted or registered, and the other tasks are left alone.
MalformedDataIsHarmless ==
    [][\A i \in 1..Len(tasks) :
          (tasks[i].st = "wait" /\ tasks'[i].res \in {"invalid data URI", "decode error"}) =>
              /\ disk' = disk
              /\ stats' = stats
              /\ resource_map' = resource_map
              /\ \A j \in 1..Len(tasks) : j # i => tasks'[j] = tasks[j]]_vars

\* The file a reference of a saved page designates: an absolute path as it is, a
\* relative one from the directory of the page's file.
Resolve(base_url, ref) ==
    LET dir == OutputDir \o SubSeq(url_to_filename(base_url), 1, Len(url_to_filename(base_url)) - 1)
    IN IF IsAbsolutePath(ref.path) THEN ref.path
       ELSE IF ref.path = << "." >> THEN dir
       ELSE dir \o ref.path

\* C16: the image reference of a page whose absolute form is registered is
\* rewritten to a relative path that, resolved from the directory of the page's
\* saved file, designates the local file the registry holds for the resource.
C16_RelativePathDesignatesFile ==
    rw.pc \in {"once", "twice"} =>
        LET u == normalize_url(rw.html.imgs[1], rw.base_url)
            ref == rw.once.imgs[1]
        IN u \in DOMAIN resource_map =>
               /\ ref.scheme = "" /\ ref.netloc = "" /\ ~IsAbsolutePath(ref.path)
               /\ Resolve(rw.base_url, ref) = OutputDir \o resource_map[u]

\* What does hold of the rewriter: a resource whose local file lies in or below
\* the directory of the page's file, and is not a data: URI, is designated by
\* the reference written.
C16_BelowPageDirectory ==
    rw.pc \in {"once", "twice"} =>
        LET u == normalize_url(rw.html.imgs[1], rw.base_url)
            ref == rw.once.imgs[1]
            from_path == url_to_filename(rw.base_url)
        IN (/\ u \in DOMAIN resource_map
            /\ u.scheme # "data"
            /\ IsPrefix(SubSeq(from_path, 1, Len(from_path) - 1), resource_map[u])) =>
               /\ ~IsAbsolutePath(ref.path)
               /\ Resolve(rw.base_url, ref) = OutputDir \o resource_map[u]

\* C17: rewriting the rewritten markup with the same page URL and registry gives
\* the rewritten markup again.
C17_RewriteIdempotent == rw.pc = "twice" => rw.twice = rw.once

(***************************************************************************)
(* The counters and the files written.                                     *)
(***************************************************************************)
ResourceTypes == {"css", "js", "images", "fonts", "other"}

RECURSIVE SizeOf(_)
SizeOf(w) ==
    IF w = {} THEN 0 ELSE LET x == CHOOSE x \in w : TRUE IN x.size + SizeOf(w \ {x})

WrittenAs(rtype) == {w \in written : w.type = rtype}

\* C22: at every moment each per-type counter is the number of resources of
\* that type whose file was written whole, the total size is the sum of the sizes
\* of exactly those files, and total_files of the report is the number of them,
\* the sum of the five counters; an attempt that failed adds to none of them.
C22_CountersMatchWrites ==
    /\ \A rtype \in ResourceTypes : stats[rtype] = Cardinality(WrittenAs(rtype))
    /\ stats.total_size = SizeOf(written)
    /\ _generate_report.total_size_bytes = SizeOf(written)
    /\ _generate_report.total_files = Cardinality(written)

\* C22 witness: files of two types and a decoded data: URI have been written
\* and another attempt has failed.
C22_Witness ==
    /\ Len(failed_downloads) > 0
    /\ Cardinality({rtype \in ResourceTypes : WrittenAs(rtype) # {}}) >= 2
    /\ \E w \in written : w.url.scheme = "data"

(***************************************************************************)
(* The outcome the middleware records for a run.                           *)
(***************************************************************************)
\* The status that stands for each way download() ends.
StatusOf(outcome) ==
    CASE outcome = "report" -> "success"
      [] outcome = "cancelled" -> "cancelled"
      [] OTHER -> "failed"

\* C27: once download() and its decorator are left, every record the run has
\* in the middleware shows the one outcome the run ended in, completed, cancelled
\* or failed, and only that outcome has been counted: a run the operator
\* declined is recorded as cancelled and nowhere as successful.
C27_OneOutcomeRecorded ==
    operations.left =>
        /\ \A id \in DOMAIN operations.status :
              operations.status[id] = StatusOf(run.outcome)
        /\ \A status \in {"success", "failed", "cancelled"} :
              status # StatusOf(run.outcome) => operations.tally[status] = 0

\* Runs that are not declined are recorded under their own outcome.
OutcomeRecordedUnlessDeclined ==
    (operations.left /\ run.outcome # "cancelled") => C27_OneOutcomeRecorded

\* A record set to CANCELLED keeps that status.
CancelledStays ==
    [][\A id \in DOMAIN operations.status :
          operations.status[id] = "cancelled" => operations'.status[id] = "cancelled"]_vars

(***************************************************************************)
(* One page at a time.                                                     *)
(***************************************************************************)
\* The frames whose page is with the rendering engine or has its batch running.
Busy == {k \in 1..Len(stack) : stack[k].pc \in {"render", "batch"}}

\* C29: at most one page is with the rendering engine at any time, and while
\* tasks of a resource batch exist their page is the innermost call, which is
\* awaiting them: every other call waits in its loop over the links, so no other
\* page is being rendered and no other batch runs.
C29_OnePageAtATime ==
    /\ Cardinality({k \in 1..Len(stack) : stack[k].pc = "render"}) <= 1
    /\ Busy \subseteq {Len(stack)}
    /\ tasks # <<>> => AtPc("batch")
    /\ \A k \in 1..Len(stack) - 1 : stack[k].pc = "loop"

\* C29 witness: a page reached through a link has a transfer in flight while
\* the call for the page that linked to it is still open.
C29_Witness == Len(stack) >= 2 /\ AtPc("batch") /\ InFlight # {}

(***************************************************************************)
(* Who writes the shared structures, and what is never taken back.         *)
(***************************************************************************)
Shared == << visited_urls, resource_map, stats, failed_downloads >>

\* C24: a step of a worker thread or of the memory monitor thread, with the
\* callbacks the downloader registers on it, never changes the visited set, the
\* registry, the statistics counters or the failure log: every step that writes
\* one of them is a step of the coroutines of the event loop.
C24_OnlyTheLoopWrites == [][Shared' # Shared => threads' = threads]_vars

\* C24 witness: a worker thread has returned, the monitor has looped, and the
\* coordinating flow has written the counters, the registry and the failure log.
C24_Witness ==
    /\ threads.returned # {}
    /\ threads.loops > 0
    /\ written # {}
    /\ Len(failed_downloads) > 0

\* C25: during a crawl no URL leaves the visited set, and so no page URL is
\* handed to the rendering engine a second time.
C25_VisitedOnlyGrows ==
    /\ [][visited_urls \subseteq visited_urls']_vars
    /\ [](\A j, k \in 1..Len(rendered) : rendered[j].url = rendered[k].url => j = k)

\* C25 witness: two pages are visited and rendered, and the monitor has looped
\* in between or after.
C25_Witness == Cardinality(visited_urls) >= 2 /\ Len(rendered) >= 2 /\ threads.loops > 0

\* C26: a URL that has an entry in the registry keeps it, with the same local
\* path, whatever is registered or cleaned up afterwards.
C26_RegistryEntriesStay ==
    [][\A url \in DOMAIN resource_map :
          url \in DOMAIN resource_map' /\ resource_map'[url] = resource_map[url]]_vars

\* C26 witness: pages, a fetched file and a decoded data: URI are registered,
\* and the monitor has looped at a time when the registry was not empty.
C26_Witness ==
    /\ threads.loops > 0
    /\ \E url \in DOMAIN resource_map : url.scheme = "data"
    /\ \E url \in DOMAIN resource_map : url \in visited_urls
    /\ \E w \in written : w.url.scheme # "data" /\ w.url \in DOMAIN resource_map

(***************************************************************************)
(* Stylesheets within stylesheets, and the order of the transfers.         *)
(***************************************************************************)
\* The tasks gathered for the references of the stylesheet of task p.
NestedUnder(p) == {j \in 1..Len(tasks) : tasks[j].parent = p}

\* C21: the references of a stylesheet fetched for a page are fetched, and a
\* resource fetched for a stylesheet is never resolved itself, stylesheet or
\* not: tasks nest one level deep at most, each URL is transferred once, and the
\* batch of a page whose stylesheets refer to each other and on to further
\* stylesheets never holds more tasks than the page and its own stylesheets name.
C21_OneLevelOfStylesheets ==
    /\ \A j \in 1..Len(tasks) :
          tasks[j].parent # 0 =>
             /\ tasks[tasks[j].parent].parent = 0
             /\ tasks[j].st # "css"
             /\ NestedUnder(j) = {}
    /\ Len(tasks) <= Len(DownloadTasks(Gallery.page)) + Len(CssText(Gallery.a_css))
    /\ \A url \in DOMAIN fetches : fetches[url] <= 1
    /\ AtPc("extract") =>
          /\ \A k \in 1..Len(CssText(Gallery.a_css)) :
                normalize_url(CssText(Gallery.a_css)[k], Gallery.a_css) \in DOMAIN resource_map
          /\ Gallery.c_css \notin downloaded_files

\* C21 witness: the batch is over; the stylesheet b.css named by a.css has been
\* fetched and stored, and c.css, which only b.css names, was never asked for.
C21_Witness ==
    /\ AtPc("extract")
    /\ Gallery.b_css \in DOMAIN resource_map
    /\ Gallery.c_css \notin downloaded_files

\* C23: two runs of the same batch, on the same page with every transfer
\* succeeding, end with the same counters and the same registry, whatever the
\* order in which the transfers started and completed in each.
C23_OrderDoesNotMatter ==
    (first.pc = "second" /\ AtPc("extract")) =>
        /\ stats = first.stats
        /\ resource_map = first.resource_map

\* The registry and the number of files do not depend on the order.
SameFilesInAnyOrder ==
    (first.pc = "second" /\ AtPc("extract")) =>
        /\ FilesCount(stats) = FilesCount(first.stats)
        /\ stats.total_size = first.stats.total_size
        /\ resource_map = first.resource_map

(***************************************************************************)
(* Termination of a crawl.                                                 *)
(***************************************************************************)
\* C28: once the crawl has begun, download() goes on to end with the report
\* written and returned, whatever the links between the pages, and at no
\* moment have more than max_pages pages been handed to the rendering engine.
C28_CrawlEndsWithReport ==
    /\ (run.pc = "crawl") ~> (run.pc = "done" /\ run.outcome = "report")
    /\ [](Len(rendered) <= cfg.max_pages)

\* Once the crawl has begun, download() ends, with the report or with the
\* exception of the report's writing, and the page bound is kept.
CrawlEnds ==
    /\ (run.pc = "crawl") ~> (run.pc = "done" /\ stack = <<>> /\ tasks = <<>>)
    /\ [](Len(rendered) <= cfg.max_pages)
    /\ [](run.pc = "done" /\ run.outdir /\ run.outcome # "report" => run.cause = "report write")

\* A crawl over pages that link to each other in a cycle has ended with a report.
CyclicCrawlReported ==
    /\ run.outcome = "report"
    /\ {StartUrl, PageDocs, PageApi} \subseteq visited_urls

(***************************************************************************)
(* The thread manager.                                                     *)
(***************************************************************************)
Done(id) == id \in DOMAIN tm.future /\ tm.future[id].state \in {"result", "exception"}

\* C30: every task submitted to a started manager is run to its end and its
\* future then holds what the function returned; in every interleaving of the
\* submitting thread and the threads of the pool, once the future is done the
\* task is not in active_tasks and its status is 'completed', or 'failed' if
\* the function raised.
C30_TaskRecordedBeforeFutureDone ==
    /\ [](\A id \in 1..MaxTasks :
            Done(id) =>
               /\ id \notin tm.active_tasks
               /\ tm.tasks[id] = (IF tm.future[id].state = "result"
                                  THEN "completed" ELSE "failed")
               /\ tm.future[id].state = "result" => tm.future[id].value = ReturnOf(id))
    /\ \A id \in 1..MaxTasks : (id \in DOMAIN tm.tasks) ~> Done(id)

\* C30 witness: a function has returned in a thread of the pool before
\* submit_thread_task has stored its future, and another task's future is done
\* with an exception.
C30_Witness ==
    /\ tm.submit.pc = "queued"
    /\ \E w \in 1..MaxWorkers : tm.worker[w].pc = "ran" /\ tm.worker[w].id = tm.submit.id
    /\ \E id \in 1..MaxTasks : Done(id) /\ tm.future[id].state = "exception"

(***************************************************************************)
(* The process cleaner.                                                    *)
(***************************************************************************)
\* C31: every process the cleaner terminated had its PID in managed_pids when
\* it was terminated.
C31_TerminatedWereManaged == \A t \in cleaner.terminated : t.managed

\* terminate_browser_processes keeps to the whitelist.
BrowserCleanupKeepsToWhitelist ==
    \A t \in cleaner.terminated : t.by = "browser" => t.managed

(***************************************************************************)
(* The page-content retry.                                                 *)
(***************************************************************************)
\* C32: the retry makes at most content_retry_attempts attempts, returns the
\* markup of the first attempt in which the page is stable and the content not
\* empty, and returns None when every attempt failed; after None nothing is
\* saved for the page, no failure is recorded and none of its links is followed.
C32_RetryBounded ==
    LET n == Len(retry.attempts)
    IN /\ n <= retry.retry_attempts
       /\ retry.returned = "html" =>
             /\ n >= 1
             /\ retry.attempts[n] = "html"
             /\ \A k \in 1..(n - 1) : retry.attempts[k] # "html"
       /\ retry.returned = "None" =>
             /\ n = retry.retry_attempts
             /\ \A k \in 1..n : retry.attempts[k] # "html"
       /\ (retry.returned = "None" /\ ~AtPc("render")) =>
             /\ stack = <<>>
             /\ html_files = << >>
             /\ resource_map = << >>
             /\ stats.pages = 0
             /\ {p \in DOMAIN disk : p # ReportPath} = {}
             /\ failed_downloads = <<>>
             /\ visited_urls = {StartUrl}
             /\ run.outcome # "raised"

\* C32 witness: three attempts failed, one of them by an exception, None was
\* returned and download() ended with its report.
C32_Witness ==
    /\ retry.returned = "None"
    /\ Len(retry.attempts) = MaxAttempts
    /\ "raises" \in Range(retry.attempts)
    /\ run.outcome = "report"

\* The markup of a later attempt is returned after earlier ones failed.
LaterAttemptReturned ==
    /\ retry.returned = "html"
    /\ Len(retry.attempts) = MaxAttempts
    /\ ~AtPc("render")

(***************************************************************************)
(* The failures of a crawl in which nothing failed.                        *)
(***************************************************************************)
\* No failure was injected: every render, transfer and write succeeded, and no
\* data: URI met was one that cannot be decoded.
NothingFailed ==
    /\ faults = 0
    /\ \A k \in 1..Len(rendered) : rendered[k].out = "ok"
    /\ \A u \in DOMAIN fetches : u.scheme = "data" => DataKind(u) # "decode error"

\* C33: if every page render and every resource transfer and write succeeded,
\* the failed_downloads of the final report is empty.
C33_CleanCrawlHasNoFailures ==
    (run.outcome = "report" /\ NothingFailed) => failed_downloads = <<>>

\* With the recursion that parses the markup itself, a crawl in which nothing
\* failed reports no failure.
LegacyCleanCrawlHasNoFailures ==
    (cfg.entry = "browser" /\ stack = <<>> /\ rendered # <<>> /\ NothingFailed)
        => failed_downloads = <<>>

(***************************************************************************)
(* The pages, the context and the browser.                                 *)
(***************************************************************************)
\* The URLs whose call of the page recursion has not returned.
InProcess == {stack[k].url : k \in 1..Len(stack)}

\* C34: a page the page recursion opened for a URL is closed when the call for
\* that URL has returned, and the open pages are never more than the depth of
\* the current call plus one.
C34_PagesClosedOnReturn ==
    /\ engine.pages \subseteq InProcess
    /\ stack # <<>> => Cardinality(engine.pages) <= Top.depth + 1

\* When no render fails, the recursion that parses the markup closes its pages.
LegacyPagesClosedWithoutFailure ==
    (cfg.entry = "browser" /\ faults = 0) => C34_PagesClosedOnReturn

\* More pages are open than the depth of the current call plus one.
PagesPileUp == stack # <<>> /\ Cardinality(engine.pages) > Top.depth + 1

\* C35: when download() has returned or raised after it obtained a context,
\* the context is closed, and so is the standalone browser if one was launched.
C35_ContextClosedAtExit ==
    (run.pc = "done" /\ engine.context # "none") =>
        /\ engine.context = "closed"
        /\ engine.browser # "open"

\* C35 witness: download() raised with a standalone browser launched and its
\* context obtained.
C35_Witness ==
    /\ run.pc = "done"
    /\ run.outcome = "raised"
    /\ engine.context = "closed"
    /\ engine.browser = "closed"

\* The three ways out of download() with a context: report, decline, failure.
ContextClosedAfterDecline ==
    run.pc = "done" /\ run.cause = "confirmation declined" /\ engine.context = "closed"

(***************************************************************************)
(* A resource whose fetch failed.                                          *)
(***************************************************************************)
\* The records _download_resource appended: those of pages carry no type.
ResourceFailures == {k \in 1..Len(failed_downloads) : failed_downloads[k].type # NoKey}

\* C36: a resource URL whose fetch failed is not attempted again in the crawl:
\* it has one transfer started, one failure record, and no file registered as
\* a resource.
C36_FailedResourceNotRetried ==
    \A k \in ResourceFailures :
        LET url == failed_downloads[k].url
        IN /\ url.scheme # "" => Count(fetches, url) = 1
           /\ \A j \in ResourceFailures : j # k => failed_downloads[j].url # url
           /\ \A w \in written : w.url # url

\* C36 witness: a transfer failed, and a later task of the crawl for the same
\* URL returned at once, the URL being in downloaded_files.
C36_Witness ==
    \E k \in ResourceFailures : \E j \in 1..Len(tasks) :
        /\ tasks[j].url = failed_downloads[k].url
        /\ tasks[j].res = "skip"

(***************************************************************************)
(* The per-type toggles.                                                   *)
(***************************************************************************)
\* C37: when the toggle of a type is off, no resource of that type is fetched
\* or counted, whichever construct refers to it.
C37_TogglesRespected ==
    /\ \A j \in 1..Len(tasks) : Toggle(tasks[j].rtype)
    /\ \A w \in written : Toggle(w.type)
    /\ \A rtype \in {"css", "js", "images", "fonts"} : ~Toggle(rtype) => stats[rtype] = 0

\* The references of the tags of the page are collected under their toggles.
PageTagsRespectToggles ==
    \A j \in 1..Len(tasks) : tasks[j].parent = 0 => Toggle(tasks[j].rtype)

(***************************************************************************)
(* The counters of the operation middleware.                               *)
(***************************************************************************)
\* C38: the operations counted as successful, failed or cancelled are never
\* more than the operations started.
C38_TerminalCountsBounded ==
    operations.tally.success + operations.tally.failed + operations.tally.cancelled
        <= operations.tally.total_operations

\* When download() does not raise, no more outcomes are counted than operations
\* were started.
CountsBoundedUnlessRaised == run.outcome # "raised" => C38_TerminalCountsBounded

====
